---- MODULE Spec2Model ----
(***************************************************************************)
(* State-machine model of the animation engine of scripts.js: the frame    *)
(* gate and adaptive quality loop (FPSController, PerformanceMonitor), the *)
(* entity families (Particle3D, HeroParticle, MatrixColumn), the spatial   *)
(* grid, the three scene controllers and the visibility handling of        *)
(* MemoryManager.                                                          *)
(*                                                                         *)
(* Numbers.  Times are integer milliseconds.  Fractional quantities of the *)
(* source are kept in fixed point: qualityLevel in units of 1/QScale,      *)
(* coordinates, speeds and fractional lengths in units of 1/PosScale, and  *)
(* a value of Math.random() is a fraction k/RandDen with k in              *)
(* 0..RandDen-1.                                                           *)
(***************************************************************************)
EXTENDS Integers, Sequences, FiniteSets, TLC

VARIABLES
    DEVICE_CONFIG,    \* the device flags read at load time
    now,              \* the clock: performance.now() / the frame timestamp, ms
    lastFrameTime,    \* FPSController.lastFrameTime
    frameCount,       \* FPSController.frameCount
    qualityLevel,     \* FPSController.qualityLevel, fixed point (QScale = 1.0)
    fpsHistory,       \* PerformanceMonitor.fpsHistory
    CONFIG,           \* CONFIG: the numbers the engine reads and adapts
    particles3D,      \* the intro scene's Particle3D objects
    columns,          \* MatrixCanvas.columns, the MatrixColumn objects
    lastCleanup,      \* MemoryManager.lastCleanup
    heroParticles,    \* the hero scene's HeroParticle objects
    spatialGrid,      \* HeroCanvas.spatialGrid: a SpatialGrid, or NoGrid
    mouse,            \* HeroCanvas.mouse
    lines,            \* the lines stroked by the last drawConnections pass
    introCompleted,   \* introCompleted
    isActive,         \* IntroController / HeroCanvas / MatrixCanvas .isActive
    animationFrame,   \* the intro's frame handle (0 is null)
    heroAnimationFrame,   \* the hero scene's frame handle (0 is null)
    matrixAnimationFrame, \* the matrix scene's frame handle (0 is null)
    nextHandle,       \* the id the next requestAnimationFrame returns
    rafQueue,         \* the frame callbacks requested and not yet delivered
    batch,            \* the callbacks of the frame being delivered, in order
    timers,           \* the pending setTimeout callbacks, in creation order
    hidden,           \* document.hidden
    canvas,           \* whether HeroCanvas.canvas / MatrixCanvas.canvas is set
    obs,              \* observation of the last handler that ran (history variable)
    gate              \* history of the polls of shouldRender (history variable)

gateVars == <<lastFrameTime, frameCount>>
qualVars == <<qualityLevel, CONFIG>>
bufVars == <<particles3D, columns, lastCleanup>>
heroVars == <<heroParticles, spatialGrid, mouse, lines>>
handleVars == <<animationFrame, heroAnimationFrame, matrixAnimationFrame, nextHandle>>
lifeVars == <<introCompleted, isActive, handleVars, rafQueue, batch, timers, hidden, canvas>>

vars == <<DEVICE_CONFIG, now, gateVars, qualVars, fpsHistory, bufVars, heroVars, lifeVars, obs, gate>>

\* the value of HeroCanvas.spatialGrid while it is null
NoGrid == [cols |-> 0, rows |-> 0, grid |-> <<>>]

Max(a, b) == IF a >= b THEN a ELSE b
Min(a, b) == IF a <= b THEN a ELSE b

Fill_Magnitude(count) == 1 .. (IF count < 0 THEN -count ELSE count)

\* the indices of the entities initParticles() and initColumns() push:
\* if (count > 0) for (i = 0; i < count; i++)
Fill(count) == IF count > 0 THEN 1 .. count ELSE {}

----------------------------------------------------------------------------
(* Bounds of the model *)

MaxSamples == 2      \* fps samples pushed by PerformanceMonitor.monitor in one run
MaxQualityCalls == 790  \* updateQuality() calls in one run of the quality loop
MaxGateTime == 90    \* last poll time (ms) in one run of the frame gate
MaxBufTicks == 7     \* update passes in one run of the entity buffers
MaxCleanups == 2     \* cleanup calls in one run of the entity buffers
MaxGridTicks == 2    \* frames in one run of the hero field
MaxFrames == 2       \* frames delivered in one run of the whole page
MaxEvents == 3       \* clicks and visibility changes in one run of the whole page
MaxSurfaceFrames == 1   \* frames delivered in one run with surface signals
MaxSurfaceEvents == 2   \* events before a surface signal or an unload is taken
MaxLoopFrames == 66  \* frames delivered in one long run of the frame loops
canvasW == 200       \* width of a drawing surface, pixels
canvasH == 100       \* height of a drawing surface, pixels

----------------------------------------------------------------------------
(* DEVICE_CONFIG and CONFIG *)

QScale == 1000000
PosScale == 100

Desktop == [mobile |-> FALSE, tablet |-> FALSE, lowEndDevice |-> FALSE, reducedMotion |-> FALSE]
Tablet == [mobile |-> FALSE, tablet |-> TRUE, lowEndDevice |-> FALSE, reducedMotion |-> FALSE]
Mobile == [mobile |-> TRUE, tablet |-> FALSE, lowEndDevice |-> FALSE, reducedMotion |-> FALSE]
ReducedMotion == [mobile |-> FALSE, tablet |-> FALSE, lowEndDevice |-> FALSE, reducedMotion |-> TRUE]

\* DEVICE_CONFIG.getParticleCount(base)
getParticleCount(dev, base) ==
    IF dev.reducedMotion THEN 0
    ELSE IF dev.mobile THEN base \div 4
    ELSE IF dev.tablet THEN base \div 2
    ELSE IF dev.lowEndDevice THEN (base * 7) \div 10
    ELSE base

\* DEVICE_CONFIG.getAnimationSpeed(base), in units of 1/PosScale
getAnimationSpeed(dev, base) ==
    IF dev.reducedMotion THEN 0
    ELSE IF dev.mobile THEN (base * PosScale) \div 2
    ELSE IF dev.lowEndDevice THEN (base * PosScale * 8) \div 10
    ELSE base * PosScale

\* CONFIG as the script builds it at load time on device dev
ConfigFor(dev) ==
    [intro |-> [particleCount |-> getParticleCount(dev, 15)],
     hero |-> [particleCount |-> getParticleCount(dev, 12),
               mouseInfluence |-> IF dev.mobile THEN 50 ELSE 100,
               connectionDistance |-> (IF dev.mobile THEN 80 ELSE 120) * PosScale,
               maxConnections |-> IF dev.mobile THEN 3 ELSE 5],
     matrix |-> [columns |-> getParticleCount(dev, 20),
                 speed |-> getAnimationSpeed(dev, 2),
                 maxTrailLength |-> IF dev.mobile THEN 8 ELSE 15],
     performance |-> [targetFPS |-> IF dev.mobile THEN 30 ELSE 60,
                      spatialOptimization |-> TRUE]]

\* FPSController.targetFPS, copied from CONFIG.performance.targetFPS at load time
targetFPS == IF DEVICE_CONFIG.mobile THEN 30 ELSE 60

QualityCheckPeriod == 60
maxHistoryLength == 60

----------------------------------------------------------------------------
(* FPSController *)

\* shouldRender letting every later poll through
shouldRender_AnyElapsed(currentTime, last) == currentTime - last > 0

\* shouldRender waiting for two frame intervals
shouldRender_TwoIntervals(currentTime, last) == (currentTime - last) * targetFPS >= 2000

\* shouldRender's test: currentTime - lastFrameTime >= 1000 / targetFPS
shouldRender(currentTime, last) == (currentTime - last) * targetFPS >= 1000

\* the frame-interval window a time lies in: floor(t / (1000 / targetFPS))
Window(t) == (t * targetFPS) \div 1000

\* the history of polls: whether every window up to the last poll held a poll,
\* the windows holding an accepted poll, the time of the last accepted poll
GateInit == [polls |-> 0, continuous |-> TRUE, accepted |-> {}, lastTrue |-> -1]

GateAfter(g, prev, t, result) ==
    [polls |-> g.polls + 1,
     continuous |-> g.continuous /\ Window(t) <= (IF g.polls = 0 THEN 0 ELSE Window(prev) + 1),
     accepted |-> IF result THEN g.accepted \cup {Window(t)} ELSE g.accepted,
     lastTrue |-> IF result THEN t ELSE g.lastTrue]

\* Math.max(0.3, qualityLevel * 0.9)
QualityDown(q) == Max((3 * QScale) \div 10, (q * 9) \div 10)

\* the recovery step without its ceiling
QualityUp_Unchanged(q) == q

QualityUp_NoCeiling(q) == (q * 11) \div 10

\* Math.min(1.0, qualityLevel * 1.1)
QualityUp(q) == Min(QScale, (q * 11) \div 10)

\* Math.max(minimum, Math.floor(count * qualityLevel))
AdaptCount(minimum, count, q) == Max(minimum, (count * q) \div QScale)

adaptPerformance(cfg, q) ==
    [cfg EXCEPT !.hero.particleCount = AdaptCount(5, @, q),
                !.intro.particleCount = AdaptCount(8, @, q),
                !.matrix.columns = AdaptCount(10, @, q)]

\* PerformanceMonitor.getAverageFPS: Math.round(sum / length), 0 when empty
RECURSIVE SeqSum(_)
SeqSum(s) == IF s = <<>> THEN 0 ELSE Head(s) + SeqSum(Tail(s))

getAverageFPS(h) ==
    IF Len(h) > 0 THEN (2 * SeqSum(h) + Len(h)) \div (2 * Len(h)) ELSE 0

\* updateQuality on (frameCount, qualityLevel, CONFIG): the values after the call
updateQuality(fc, q, cfg, avgFPS) ==
    LET fc1 == fc + 1 IN
    IF fc1 % QualityCheckPeriod = 0
    THEN IF avgFPS * 10 < targetFPS * 8
         THEN LET q1 == QualityDown(q) IN
              [frameCount |-> fc1, qualityLevel |-> q1,
               CONFIG |-> adaptPerformance(cfg, q1), checked |-> TRUE]
         ELSE IF avgFPS * 100 > targetFPS * 95 /\ q < QScale
              THEN [frameCount |-> fc1, qualityLevel |-> QualityUp(q),
                    CONFIG |-> cfg, checked |-> TRUE]
              ELSE [frameCount |-> fc1, qualityLevel |-> q,
                    CONFIG |-> cfg, checked |-> TRUE]
    ELSE [frameCount |-> fc1, qualityLevel |-> q, CONFIG |-> cfg, checked |-> FALSE]

\* PerformanceMonitor.optimizeForLowFPS
optimizeForLowFPS(cfg) ==
    [cfg EXCEPT !.hero.particleCount = Max(3, (@ * 8) \div 10),
                !.intro.particleCount = Max(5, (@ * 8) \div 10),
                !.matrix.columns = Max(8, (@ * 8) \div 10),
                !.hero.connectionDistance = Max(60 * PosScale, (@ * 9) \div 10)]

\* fpsHistory after monitor() has stored a sample
PushSample(h, fps) ==
    LET h1 == Append(h, fps) IN
    IF Len(h1) > maxHistoryLength THEN Tail(h1) ELSE h1

----------------------------------------------------------------------------
(* utils.random and the entity families *)

RandDen == 4

\* utils.random(min, max) = Math.random() * (max - min) + min, for the value
\* k / RandDen of Math.random()
Random(k, min, max) == min + ((max - min) * k) \div RandDen

TrailInterval == 50
MaxGlyphAge == 80
CleanupThrottle == 5000

\* Particle3D's constructor and reset(): d holds the values Math.random() returns
\* for x, y, z, vx, vy, vz
Particle3DReset(dev, d) ==
    [x |-> Random(d.x, 0, canvasW * PosScale),
     y |-> Random(d.y, 0, canvasH * PosScale),
     z |-> Random(d.z, -400 * PosScale, 400 * PosScale),
     vx |-> Random(d.vx, -PosScale, PosScale),
     vy |-> Random(d.vy, -PosScale, PosScale),
     vz |-> Random(d.vz, -2 * PosScale, 2 * PosScale),
     trail |-> <<>>,
     maxTrailLength |-> IF dev.mobile THEN 4 ELSE 8,
     lastTrailTime |-> 0]

\* the trail after one throttled sample: shift at capacity, then push
TrailPush(trail, cap, sample) ==
    Append(IF Len(trail) >= cap THEN Tail(trail) ELSE trail, sample)

Particle3DOutside_NoDepth(p) ==
    \/ p.x < -50 * PosScale \/ p.x > (canvasW + 50) * PosScale
    \/ p.y < -50 * PosScale \/ p.y > (canvasH + 50) * PosScale

\* the boundary test of update()
Particle3DOutside(p) ==
    \/ p.x < -50 * PosScale \/ p.x > (canvasW + 50) * PosScale
    \/ p.y < -50 * PosScale \/ p.y > (canvasH + 50) * PosScale
    \/ p.z < -400 * PosScale \/ p.z > 400 * PosScale

\* Particle3D.update(currentTime); d is used by reset() when the particle left
\* its bounding volume
Particle3DUpdate(dev, p, currentTime, d) ==
    LET moved == [p EXCEPT !.x = @ + p.vx, !.y = @ + p.vy, !.z = @ + p.vz]
        trailed ==
            IF currentTime - moved.lastTrailTime > TrailInterval
            THEN [moved EXCEPT !.trail = TrailPush(@, moved.maxTrailLength,
                                                   <<moved.x, moved.y, moved.z>>),
                               !.lastTrailTime = currentTime]
            ELSE moved
    IN IF Particle3DOutside(trailed) THEN Particle3DReset(dev, d) ELSE trailed

\* MatrixColumn's constructor and reset(): d holds the values Math.random()
\* returns for y, speed and maxLength; maxLength is a fraction, kept in units of
\* 1/PosScale.  A glyph is kept as its age.
MatrixColumnReset(cfg, d) ==
    [y |-> Random(d.y, -200 * PosScale, -50 * PosScale),
     speed |-> Random(d.speed, PosScale, cfg.matrix.speed),
     characters |-> <<>>,
     maxLength |-> Random(d.maxLength, 5 * PosScale, cfg.matrix.maxTrailLength * PosScale),
     nextCharTime |-> 0]

\* the test of the throttled glyph addition: characters.length < maxLength
GlyphRoom(c) == Len(c.characters) * PosScale < c.maxLength

AgeGlyphs_NoSplice(chars) == [k \in DOMAIN chars |-> chars[k] + 1]

\* the ageing loop: every glyph ages by one, and one older than 80 is spliced out
RECURSIVE AgeGlyphs(_)
AgeGlyphs(chars) ==
    IF chars = <<>> THEN <<>>
    ELSE LET rest == AgeGlyphs(Tail(chars)) IN
         IF Head(chars) + 1 > MaxGlyphAge THEN rest ELSE <<Head(chars) + 1>> \o rest

\* MatrixColumn.update with the clock Date.now() at dateNow; d holds the random
\* values of reset() and, in d.delay, of the next glyph delay
MatrixColumnUpdate(dev, cfg, c, dateNow, d) ==
    IF dev.reducedMotion THEN c
    ELSE LET y1 == c.y + c.speed IN
         IF y1 > (canvasH + 100) * PosScale
         THEN MatrixColumnReset(cfg, d)
         ELSE LET added ==
                      IF dateNow > c.nextCharTime /\ GlyphRoom(c)
                      THEN [c EXCEPT !.y = y1,
                                     !.characters = Append(@, 0),
                                     !.nextCharTime = dateNow + Random(d.delay, 100, 300)]
                      ELSE [c EXCEPT !.y = y1]
              IN [added EXCEPT !.characters = AgeGlyphs(@)]

\* Array.prototype.slice(-n): the last n elements
LastN(s, n) == IF Len(s) <= n THEN s ELSE SubSeq(s, Len(s) - n + 1, Len(s))

\* the trimming of MemoryManager.cleanup; slice(-maxLength) truncates maxLength
TrimParticle(p) ==
    IF Len(p.trail) > p.maxTrailLength
    THEN [p EXCEPT !.trail = LastN(@, p.maxTrailLength)] ELSE p

TrimColumn(c) ==
    IF Len(c.characters) * PosScale > c.maxLength
    THEN [c EXCEPT !.characters = LastN(@, c.maxLength \div PosScale)] ELSE c

cleanup_NoThrottle(ps, cs, last, t) ==
    [particles3D |-> [i \in DOMAIN ps |-> TrimParticle(ps[i])],
     columns |-> [i \in DOMAIN cs |-> TrimColumn(cs[i])],
     lastCleanup |-> t]

\* MemoryManager.cleanup at time t, on (particles3D, columns, lastCleanup)
cleanup(ps, cs, last, t) ==
    IF t - last < CleanupThrottle
    THEN [particles3D |-> ps, columns |-> cs, lastCleanup |-> last]
    ELSE [particles3D |-> [i \in DOMAIN ps |-> TrimParticle(ps[i])],
          columns |-> [i \in DOMAIN cs |-> TrimColumn(cs[i])],
          lastCleanup |-> t]

\* MemoryManager.forceCleanup: cleanup(), then every buffer emptied
forceCleanup(ps, cs, last, t) ==
    LET r == cleanup(ps, cs, last, t) IN
    [particles3D |-> [i \in DOMAIN ps |-> [r.particles3D[i] EXCEPT !.trail = <<>>]],
     columns |-> [i \in DOMAIN cs |-> [r.columns[i] EXCEPT !.characters = <<>>]],
     lastCleanup |-> r.lastCleanup]

----------------------------------------------------------------------------
(* SpatialGrid *)

cellSize == 100

\* Math.ceil(a / b) for b > 0
CeilDiv(a, b) == -((-a) \div b)

\* new SpatialGrid(width, height, cellSize), sizes in pixels; grid is the array
\* of cells, a cell the sequence of the particles (their indices) pushed into it
NewSpatialGrid(width, height) ==
    LET cols == CeilDiv(width, cellSize)
        rows == CeilDiv(height, cellSize)
    IN [cols |-> cols, rows |-> rows, grid |-> [i \in 1 .. cols * rows |-> <<>>]]

\* SpatialGrid.clear
GridClear(g) == [g EXCEPT !.grid = [i \in DOMAIN g.grid |-> <<>>]]

\* Math.floor(x / this.cellSize), x in units of 1/PosScale pixel
CellOf(x) == x \div (cellSize * PosScale)

\* SpatialGrid.insert
GridInsert(g, particle, x, y) ==
    LET col == CellOf(x)
        row == CellOf(y)
    IN IF col >= 0 /\ col < g.cols /\ row >= 0 /\ row < g.rows
       THEN [g EXCEPT !.grid[row * g.cols + col + 1] = Append(@, particle)]
       ELSE g

\* the cells getNearby visits, in its loop order, as (row, col) pairs
RECURSIVE CellBlock(_, _, _, _, _, _)
CellBlock(r, c, rowHi, colLo, colHi, acc) ==
    IF r > rowHi THEN acc
    ELSE IF c > colHi THEN CellBlock(r + 1, colLo, rowHi, colLo, colHi, acc)
    ELSE CellBlock(r, c + 1, rowHi, colLo, colHi, Append(acc, <<r, c>>))

RECURSIVE Gather(_, _)
Gather(g, cells) ==
    IF cells = <<>> THEN <<>>
    ELSE LET r == Head(cells)[1]
             c == Head(cells)[2]
         IN (IF r >= 0 /\ r < g.rows /\ c >= 0 /\ c < g.cols
             THEN g.grid[r * g.cols + c + 1] ELSE <<>>) \o Gather(g, Tail(cells))

\* SpatialGrid.getNearby(x, y, radius)
getNearby(g, x, y, radius) ==
    LET cellRadius == CeilDiv(radius, cellSize * PosScale)
        col == CellOf(x)
        row == CellOf(y)
    IN Gather(g, CellBlock(row - cellRadius, col - cellRadius, row + cellRadius,
                           col - cellRadius, col + cellRadius, <<>>))

\* the grid rebuild of HeroCanvas.animate: clear(), then every particle inserted
RECURSIVE InsertAll(_, _, _)
InsertAll(g, ps, i) ==
    IF i > Len(ps) THEN g
    ELSE InsertAll(GridInsert(g, i, ps[i].x, ps[i].y), ps, i + 1)

RebuildGrid(g, ps) == InsertAll(GridClear(g), ps, 1)

----------------------------------------------------------------------------
(* HeroParticle *)

ForceScale == 100

\* utils.distanceSquared
distanceSquared(x1, y1, x2, y2) == (x2 - x1) * (x2 - x1) + (y2 - y1) * (y2 - y1)

\* Math.floor(Math.sqrt(n))
RECURSIVE SqrtBetween(_, _, _)
SqrtBetween(n, lo, hi) ==
    IF lo >= hi THEN lo
    ELSE LET mid == (lo + hi + 1) \div 2 IN
         IF mid * mid <= n THEN SqrtBetween(n, mid, hi) ELSE SqrtBetween(n, lo, mid - 1)

Sqrt(n) == SqrtBetween(n, 0, 40000)

\* HeroParticle's constructor and reset(): d holds the values Math.random()
\* returns for x, y, vx, vy.  mouseForce is kept in units of
\* 1/(PosScale * ForceScale) pixel.
HeroParticleReset(d) ==
    LET x == Random(d.x, 0, canvasW * PosScale)
        y == Random(d.y, 0, canvasH * PosScale)
    IN [x |-> x, y |-> y, baseX |-> x, baseY |-> y,
        vx |-> Random(d.vx, -PosScale \div 2, PosScale \div 2),
        vy |-> Random(d.vy, -PosScale \div 2, PosScale \div 2),
        mouseForceX |-> 0, mouseForceY |-> 0]

\* the pointer force of update(): inside the influence radius it is
\* -(dx / dist) * force * 0.015 with force = (influenceSq - distSq) / influenceSq,
\* outside it decays by 0.95
MouseForce(p, x, y, m, cfg) ==
    LET dx == m.x - x
        dy == m.y - y
        distSq == dx * dx + dy * dy
        influence == cfg.hero.mouseInfluence * PosScale
        influenceSq == influence * influence
    IN IF distSq < influenceSq /\ distSq > 0
       THEN LET force == (influenceSq - distSq) \div (influenceSq \div 1000)
                dist == Sqrt(distSq)
            IN [x |-> -((dx * force * 15) \div (dist * 100)),
                y |-> -((dy * force * 15) \div (dist * 100))]
       ELSE [x |-> (p.mouseForceX * 95) \div 100, y |-> (p.mouseForceY * 95) \div 100]

\* utils.lerp(start, end, 0.005)
LerpHome(start, end) == start + ((end - start) * 5) \div 1000

Wrap_OneSided(v, size) == IF v < -10 * PosScale THEN (size + 10) * PosScale ELSE v

\* the boundary wrapping of update(), one axis of extent size
Wrap(v, size) ==
    LET v1 == IF v < -10 * PosScale THEN (size + 10) * PosScale ELSE v
    IN IF v1 > (size + 10) * PosScale THEN -10 * PosScale ELSE v1

\* HeroParticle.update
HeroParticleUpdate(dev, cfg, p, m) ==
    LET x1 == p.x + (p.vx * 3) \div 10
        y1 == p.y + (p.vy * 3) \div 10
        f == IF dev.mobile
             THEN [x |-> p.mouseForceX, y |-> p.mouseForceY]
             ELSE MouseForce(p, x1, y1, m, cfg)
        x2 == IF dev.mobile THEN x1 ELSE x1 + f.x \div ForceScale
        y2 == IF dev.mobile THEN y1 ELSE y1 + f.y \div ForceScale
    IN [p EXCEPT !.x = Wrap(LerpHome(x2, p.baseX), canvasW),
                 !.y = Wrap(LerpHome(y2, p.baseY), canvasH),
                 !.mouseForceX = f.x,
                 !.mouseForceY = f.y]

\* HeroParticle.findConnections of particle i of ps, whose spatialGrid is g:
\* the particles it returns, as indices
findConnections(dev, cfg, ps, g, i) ==
    IF dev.mobile \/ dev.reducedMotion THEN <<>>
    ELSE IF cfg.performance.spatialOptimization /\ g # NoGrid
    THEN getNearby(g, ps[i].x, ps[i].y, cfg.hero.connectionDistance)
    ELSE SelectSeq([k \in DOMAIN ps |-> k],
                   LAMBDA j : j # i /\ distanceSquared(ps[i].x, ps[i].y, ps[j].x, ps[j].y)
                                       < cfg.hero.connectionDistance * cfg.hero.connectionDistance)

----------------------------------------------------------------------------
(* HeroCanvas: the frame body of animate and drawConnections *)

\* the indices i+1 .. n: heroParticles.slice(i + 1)
SliceAfter(ps, i) == [k \in 1 .. Len(ps) - i |-> i + k]

\* the inner loop of drawConnections for source i over its candidates: the
\* lines stroked, as <<source, target>> pairs
RECURSIVE ConnectFrom_NoCap(_, _, _, _, _, _)
ConnectFrom_NoCap(ps, i, cands, count, maxConnections, connectionDistSq) ==
    IF cands = <<>> THEN <<>>
    ELSE LET j == Head(cands) IN
         IF j # i /\ distanceSquared(ps[i].x, ps[i].y, ps[j].x, ps[j].y) < connectionDistSq
         THEN <<<<i, j>>>> \o ConnectFrom_NoCap(ps, i, Tail(cands), count + 1,
                                               maxConnections, connectionDistSq)
         ELSE ConnectFrom_NoCap(ps, i, Tail(cands), count, maxConnections, connectionDistSq)

RECURSIVE ConnectFrom(_, _, _, _, _, _)
ConnectFrom(ps, i, cands, count, maxConnections, connectionDistSq) ==
    IF cands = <<>> \/ count >= maxConnections THEN <<>>
    ELSE LET j == Head(cands) IN
         IF j # i /\ distanceSquared(ps[i].x, ps[i].y, ps[j].x, ps[j].y) < connectionDistSq
         THEN <<<<i, j>>>> \o ConnectFrom(ps, i, Tail(cands), count + 1,
                                         maxConnections, connectionDistSq)
         ELSE ConnectFrom(ps, i, Tail(cands), count, maxConnections, connectionDistSq)

RECURSIVE ConnectAll(_, _, _, _)
ConnectAll(ps, g, cfg, i) ==
    IF i > Len(ps) THEN <<>>
    ELSE LET nearbyParticles ==
                 IF g # NoGrid
                 THEN getNearby(g, ps[i].x, ps[i].y, cfg.hero.connectionDistance)
                 ELSE SliceAfter(ps, i)
         IN ConnectFrom(ps, i, nearbyParticles, 0, cfg.hero.maxConnections,
                        cfg.hero.connectionDistance * cfg.hero.connectionDistance)
            \o ConnectAll(ps, g, cfg, i + 1)

\* HeroCanvas.drawConnections: the lines it strokes
drawConnections(dev, cfg, ps, g) ==
    IF dev.mobile \/ dev.reducedMotion THEN <<>> ELSE ConnectAll(ps, g, cfg, 1)

\* the calls the loop body of animate makes on entity i, in order
ParticleStep_DrawFirst(i) == <<[ev |-> "draw", i |-> i, j |-> 0], [ev |-> "update", i |-> i, j |-> 0]>>

ParticleStep(i) == <<[ev |-> "update", i |-> i, j |-> 0], [ev |-> "draw", i |-> i, j |-> 0]>>

\* the calls of heroParticles.forEach(particle => { update(); draw(); }) from
\* entity i on
RECURSIVE forEachParticle(_, _)
forEachParticle(n, i) ==
    IF i > n THEN <<>> ELSE ParticleStep(i) \o forEachParticle(n, i + 1)

\* the strokes of drawConnections, in order
StrokeCalls(ls) == [k \in DOMAIN ls |-> [ev |-> "line", i |-> ls[k][1], j |-> ls[k][2]]]

\* the body of an accepted HeroCanvas.animate frame: the grid rebuilt from the
\* positions, every particle updated and drawn, then the connections drawn;
\* calls is the order of the update, draw and stroke calls
HeroFrameBody(dev, cfg, ps, g, m) ==
    LET g1 == IF g # NoGrid THEN RebuildGrid(g, ps) ELSE g
        ps1 == [i \in DOMAIN ps |-> HeroParticleUpdate(dev, cfg, ps[i], m)]
        ls == drawConnections(dev, cfg, ps1, g1)
    IN [heroParticles |-> ps1, spatialGrid |-> g1, lines |-> ls,
        calls |-> forEachParticle(Len(ps), 1) \o StrokeCalls(ls)]

\* HeroCanvas.setupCanvas' grid, for a device-pixel ratio of 1
SetupGrid(dev, cfg) ==
    IF cfg.performance.spatialOptimization /\ ~dev.mobile
    THEN NewSpatialGrid(canvasW, canvasH) ELSE NoGrid

----------------------------------------------------------------------------
(* The scenes and the page before IntroController.init has run *)

Scenes == {"intro", "hero", "matrix"}

LifecycleAtLoad ==
    /\ introCompleted = FALSE
    /\ isActive = [s \in Scenes |-> FALSE]
    /\ animationFrame = 0
    /\ heroAnimationFrame = 0
    /\ matrixAnimationFrame = 0
    /\ nextHandle = 1
    /\ rafQueue = <<>>
    /\ batch = <<>>
    /\ timers = <<>>
    /\ hidden = FALSE
    /\ canvas = [hero |-> FALSE, matrix |-> FALSE]

----------------------------------------------------------------------------
(* The quality loop alone: updateQuality() called any number of times,     *)
(* with PerformanceMonitor.monitor storing fps samples in between.         *)

FpsSamples == {20, 52, 60}

QualityDevices == {Desktop, Mobile, ReducedMotion}

InitQuality ==
    /\ DEVICE_CONFIG \in QualityDevices
    /\ now = 0
    /\ lastFrameTime = 0
    /\ frameCount = 0
    /\ qualityLevel = QScale
    /\ fpsHistory = <<>>
    /\ CONFIG = ConfigFor(DEVICE_CONFIG)
    /\ particles3D = <<>>
    /\ columns = <<>>
    /\ lastCleanup = 0
    /\ heroParticles = <<>>
    /\ spatialGrid = NoGrid
    /\ mouse = [x |-> 0, y |-> 0]
    /\ lines = <<>>
    /\ LifecycleAtLoad
    /\ obs = [op |-> "init"]
    /\ gate = GateInit

CallUpdateQuality ==
    /\ frameCount < MaxQualityCalls
    /\ LET r == updateQuality(frameCount, qualityLevel, CONFIG, getAverageFPS(fpsHistory)) IN
       /\ frameCount' = r.frameCount
       /\ qualityLevel' = r.qualityLevel
       /\ CONFIG' = r.CONFIG
       /\ obs' = [op |-> "updateQuality", checked |-> r.checked, before |-> qualityLevel,
                  config |-> CONFIG, avgFPS |-> getAverageFPS(fpsHistory)]
    /\ UNCHANGED <<DEVICE_CONFIG, now, lastFrameTime, fpsHistory, bufVars, gate, heroVars, lifeVars>>

\* the once-per-second branch of monitor(): an fps sample is stored, and a
\* low sample triggers optimizeForLowFPS
MonitorSample(fps, memoryHigh) ==
    /\ Len(fpsHistory) < MaxSamples
    /\ fpsHistory' = PushSample(fpsHistory, fps)
    /\ CONFIG' = IF fps * 10 < targetFPS * 7 THEN optimizeForLowFPS(CONFIG) ELSE CONFIG
    /\ LET r == IF memoryHigh
                THEN forceCleanup(particles3D, columns, lastCleanup, now)
                ELSE [particles3D |-> particles3D, columns |-> columns,
                      lastCleanup |-> lastCleanup]
       IN /\ particles3D' = r.particles3D
          /\ columns' = r.columns
          /\ lastCleanup' = r.lastCleanup
    /\ obs' = [op |-> "monitor"]
    /\ UNCHANGED <<DEVICE_CONFIG, now, gateVars, qualityLevel, gate, heroVars, lifeVars>>

NextQuality ==
    \/ CallUpdateQuality
    \/ \E fps \in FpsSamples, memoryHigh \in BOOLEAN : MonitorSample(fps, memoryHigh)

SpecQuality == InitQuality /\ [][NextQuality]_vars

QualityFloor == (3 * QScale) \div 10

\* C2: qualityLevel stays within [0.3, 1.0] in every reachable state
C2_QualityInRange == QualityFloor <= qualityLevel /\ qualityLevel <= QScale

\* C2 witness: a quality check at the floor has run and left the level at 0.3
C2_Witness ==
    /\ obs.op = "updateQuality" /\ obs.checked
    /\ obs.before = QualityFloor /\ qualityLevel = QualityFloor

\* the two branches of a quality check, on the average updateQuality read
Degrading == obs.op = "updateQuality" /\ obs.checked /\ obs.avgFPS * 10 < targetFPS * 8

Recovering ==
    /\ obs.op = "updateQuality" /\ obs.checked
    /\ ~(obs.avgFPS * 10 < targetFPS * 8)
    /\ obs.avgFPS * 100 > targetFPS * 95 /\ obs.before < QScale

\* C11: a degradation step takes qualityLevel q to max(0.3, 0.9 q) and each
\* configured count c to max(family minimum, floor(0.9 c)).
C11_DegradeByStepFactor ==
    Degrading
    => /\ qualityLevel = QualityDown(obs.before)
       /\ CONFIG.hero.particleCount = Max(5, (obs.config.hero.particleCount * 9) \div 10)
       /\ CONFIG.intro.particleCount = Max(8, (obs.config.intro.particleCount * 9) \div 10)
       /\ CONFIG.matrix.columns = Max(10, (obs.config.matrix.columns * 9) \div 10)

\* C12: no configured count ever exceeds the value it had at load.
C12_CountsNeverGrow ==
    /\ CONFIG.hero.particleCount <= ConfigFor(DEVICE_CONFIG).hero.particleCount
    /\ CONFIG.intro.particleCount <= ConfigFor(DEVICE_CONFIG).intro.particleCount
    /\ CONFIG.matrix.columns <= ConfigFor(DEVICE_CONFIG).matrix.columns

\* C13: a recovery step takes qualityLevel q to min(1.0, 1.1 q) and leaves
\* CONFIG as it was; a call that neither degrades nor recovers changes neither
\* qualityLevel nor CONFIG.
C13_RecoveryKeepsCounts ==
    obs.op = "updateQuality"
    => /\ Recovering
          => /\ qualityLevel = Min(QScale, (obs.before * 11) \div 10)
             /\ CONFIG = obs.config
       /\ (~Recovering /\ ~Degrading)
          => /\ qualityLevel = obs.before
             /\ CONFIG = obs.config

\* a recovery step has raised a degraded level while the counts stay shrunk
C13_Witness ==
    /\ Recovering
    /\ qualityLevel > obs.before
    /\ CONFIG.hero.particleCount < ConfigFor(DEVICE_CONFIG).hero.particleCount

----------------------------------------------------------------------------
(* The frame gate alone: shouldRender polled at any monotonic times.       *)

GateDts == {2, 7, 17, 34}

InitGate ==
    /\ DEVICE_CONFIG \in {Desktop, Mobile}
    /\ now = 0
    /\ lastFrameTime = 0
    /\ frameCount = 0
    /\ qualityLevel = QScale
    /\ fpsHistory = <<>>
    /\ CONFIG = ConfigFor(DEVICE_CONFIG)
    /\ particles3D = <<>>
    /\ columns = <<>>
    /\ lastCleanup = 0
    /\ heroParticles = <<>>
    /\ spatialGrid = NoGrid
    /\ mouse = [x |-> 0, y |-> 0]
    /\ lines = <<>>
    /\ LifecycleAtLoad
    /\ obs = [op |-> "init"]
    /\ gate = GateInit

CallShouldRender(currentTime) ==
    /\ currentTime <= MaxGateTime
    /\ LET result == shouldRender(currentTime, lastFrameTime) IN
       /\ lastFrameTime' = IF result THEN currentTime ELSE lastFrameTime
       /\ frameCount' = IF result THEN frameCount + 1 ELSE frameCount
       /\ obs' = [op |-> "shouldRender", time |-> currentTime, result |-> result,
                  last |-> lastFrameTime, lastTrue |-> gate.lastTrue]
       /\ gate' = GateAfter(gate, now, currentTime, result)
    /\ now' = currentTime
    /\ UNCHANGED <<DEVICE_CONFIG, qualVars, fpsHistory, bufVars, heroVars, lifeVars>>

NextGate == \E dt \in GateDts : CallShouldRender(now + dt)

SpecGate == InitGate /\ [][NextGate]_vars

\* C3: a poll returns true only if the time since the last accepted poll is at
\* least the frame interval, it then sets lastFrameTime to the poll time, and any
\* two polls that return true are at least one frame interval apart
C3_AtMostOncePerInterval ==
    (obs.op = "shouldRender" /\ obs.result) =>
        /\ (obs.time - obs.last) * targetFPS >= 1000
        /\ lastFrameTime = obs.time
        /\ obs.lastTrue >= 0 => (obs.time - obs.lastTrue) * targetFPS >= 1000

\* C3 witness: a poll was accepted after an earlier accepted poll
C3_Witness == obs.op = "shouldRender" /\ obs.result /\ obs.lastTrue >= 0

\* C4: under continuous polling (a poll in every frame-interval window), every
\* two consecutive windows up to the last poll hold an accepted poll
C4_BoundedStarvation ==
    (gate.polls > 0 /\ gate.continuous) =>
        \A w \in 0 .. Window(now) - 1 : w \in gate.accepted \/ w + 1 \in gate.accepted

\* C4 witness: continuous polling over four windows with a window that holds
\* polls but no accepted one
C4_Witness ==
    /\ gate.continuous /\ Window(now) >= 4
    /\ \E w \in 1 .. Window(now) - 1 : w \notin gate.accepted

----------------------------------------------------------------------------
(* The entity buffers alone: one Particle3D or one MatrixColumn, updated   *)
(* at any monotonic times, with MemoryManager's cleanups interleaved.      *)

BufDts == {17, 310}
CleanupDts == {0, 5000}

\* a column that has been updated AgedTicks times, a frame apart, since its
\* reset(): its first glyph is AgedTicks old
AgedTicks == 78
AgedDraw == [y |-> 0, speed |-> 0, maxLength |-> 0, delay |-> 3]

RECURSIVE ColumnAfter(_, _, _)
ColumnAfter(c, n, t) ==
    IF n = 0 THEN c
    ELSE ColumnAfter(MatrixColumnUpdate(Mobile, ConfigFor(Mobile), c, t + 17, AgedDraw),
                     n - 1, t + 17)

\* the values of Math.random() a run of the buffers draws from
P3Draws ==
    {[x |-> 2, y |-> 2, z |-> 2, vx |-> 2, vy |-> 2, vz |-> 2],
     [x |-> 0, y |-> 1, z |-> 0, vx |-> 3, vy |-> 1, vz |-> 0]}

ColDraws ==
    {[y |-> 0, speed |-> 3, maxLength |-> m, delay |-> dl] : m \in {0, 1}, dl \in {0, 3}}

\* the buffers and the cleanup clock, as an operation finds them
BufPart == [particles3D |-> particles3D, columns |-> columns,
            lastCleanup |-> lastCleanup, now |-> now]

InitBuf ==
    /\ DEVICE_CONFIG = Mobile
    /\ lastFrameTime = 0
    /\ frameCount = 0
    /\ qualityLevel = QScale
    /\ fpsHistory = <<>>
    /\ CONFIG = ConfigFor(DEVICE_CONFIG)
    /\ \/ /\ \E d \in P3Draws : particles3D = <<Particle3DReset(DEVICE_CONFIG, d)>>
          /\ columns = <<>>
          /\ now = 0
       \/ /\ particles3D = <<>>
          /\ \E d \in ColDraws : columns = <<MatrixColumnReset(CONFIG, d)>>
          /\ now = 0
       \/ /\ particles3D = <<>>
          /\ columns = <<ColumnAfter(MatrixColumnReset(CONFIG, AgedDraw), AgedTicks, 0)>>
          /\ now = AgedTicks * 17
    /\ lastCleanup = 0
    /\ heroParticles = <<>>
    /\ spatialGrid = NoGrid
    /\ mouse = [x |-> 0, y |-> 0]
    /\ lines = <<>>
    /\ LifecycleAtLoad
    /\ obs = [ticks |-> 0, cleanups |-> 0, op |-> "init", force |-> FALSE, pre |-> BufPart]
    /\ gate = GateInit

\* the update loop of IntroController.animate over particles3D
UpdateParticles3D(t, d) ==
    /\ obs.ticks < MaxBufTicks
    /\ particles3D # <<>>
    /\ now' = t
    /\ particles3D' = [i \in DOMAIN particles3D |->
                          Particle3DUpdate(DEVICE_CONFIG, particles3D[i], t, d)]
    /\ obs' = [obs EXCEPT !.ticks = @ + 1, !.op = "update3D", !.force = FALSE, !.pre = BufPart]
    /\ UNCHANGED <<DEVICE_CONFIG, gateVars, qualVars, fpsHistory, columns, lastCleanup, gate, heroVars, lifeVars>>

\* the update loop of MatrixCanvas.animate over the columns
UpdateColumns(t, d) ==
    /\ obs.ticks < MaxBufTicks
    /\ columns # <<>>
    /\ now' = t
    /\ columns' = [i \in DOMAIN columns |->
                      MatrixColumnUpdate(DEVICE_CONFIG, CONFIG, columns[i], t, d)]
    /\ obs' = [obs EXCEPT !.ticks = @ + 1, !.op = "updateColumns", !.force = FALSE, !.pre = BufPart]
    /\ UNCHANGED <<DEVICE_CONFIG, gateVars, qualVars, fpsHistory, particles3D, lastCleanup, gate, heroVars, lifeVars>>

\* MemoryManager.cleanup() or forceCleanup() called at time t
CallCleanup(t, force) ==
    /\ obs.cleanups < MaxCleanups
    /\ now' = t
    /\ LET r == IF force
                THEN forceCleanup(particles3D, columns, lastCleanup, t)
                ELSE cleanup(particles3D, columns, lastCleanup, t)
       IN /\ particles3D' = r.particles3D
          /\ columns' = r.columns
          /\ lastCleanup' = r.lastCleanup
    /\ obs' = [obs EXCEPT !.cleanups = @ + 1, !.op = "cleanup", !.force = force,
                          !.pre = BufPart]
    /\ UNCHANGED <<DEVICE_CONFIG, gateVars, qualVars, fpsHistory, gate, heroVars, lifeVars>>

NextBuf ==
    \/ \E dt \in BufDts, d \in P3Draws : UpdateParticles3D(now + dt, d)
    \/ \E dt \in BufDts, d \in ColDraws : UpdateColumns(now + dt, d)
    \/ \E dt \in CleanupDts, force \in BOOLEAN : CallCleanup(now + dt, force)

SpecBuf == InitBuf /\ [][NextBuf]_vars

\* C1: no history buffer is ever longer than its capacity: trail.length <=
\* maxTrailLength for every Particle3D and characters.length <= maxLength for
\* every MatrixColumn
C1_BuffersWithinCapacity ==
    /\ \A i \in DOMAIN particles3D :
          Len(particles3D[i].trail) <= particles3D[i].maxTrailLength
    /\ \A i \in DOMAIN columns :
          Len(columns[i].characters) * PosScale <= columns[i].maxLength

\* the position update() integrates from p left the bounding volume
LeftVolume(p) ==
    \/ p.x + p.vx < -50 * PosScale \/ p.x + p.vx > (canvasW + 50) * PosScale
    \/ p.y + p.vy < -50 * PosScale \/ p.y + p.vy > (canvasH + 50) * PosScale
    \/ p.z + p.vz < -400 * PosScale \/ p.z + p.vz > 400 * PosScale

\* C24: after an update tick every Particle3D is inside its bounding volume,
\* and one whose integrated position left the volume was reset in that tick:
\* it lies within the canvas and its trail is empty.
C24_ParticleInsideVolume ==
    obs.op = "update3D"
    => \A i \in DOMAIN particles3D :
          LET p == particles3D[i] IN
          /\ p.x >= -50 * PosScale /\ p.x <= (canvasW + 50) * PosScale
          /\ p.y >= -50 * PosScale /\ p.y <= (canvasH + 50) * PosScale
          /\ p.z >= -400 * PosScale /\ p.z <= 400 * PosScale
          /\ LeftVolume(obs.pre.particles3D[i])
             => /\ p.x >= 0 /\ p.x <= canvasW * PosScale
                /\ p.y >= 0 /\ p.y <= canvasH * PosScale
                /\ p.trail = <<>>

C24_Witness ==
    /\ obs.op = "update3D"
    /\ \E i \in DOMAIN particles3D : LeftVolume(obs.pre.particles3D[i])

\* the column was reset by the last update, or motion is reduced
ColumnReset(c) == DEVICE_CONFIG.reducedMotion \/ c.y + c.speed > (canvasH + 100) * PosScale

\* the glyphs of before, each one older, without those older than 80
AgedOnce(chars) ==
    SelectSeq([k \in DOMAIN chars |-> chars[k] + 1], LAMBDA a : a <= MaxGlyphAge)

\* C28: an update tick of a column that is not reset makes every glyph one
\* older and removes those older than 80, and appends a glyph only when the
\* queue was below the capacity and the delay drawn at the last append had
\* passed.
C28_GlyphsAgeAndExpire ==
    obs.op = "updateColumns"
    => \A i \in DOMAIN columns :
          LET before == obs.pre.columns[i]
              after == columns[i]
              appended == after.nextCharTime # before.nextCharTime
          IN ~ColumnReset(before)
             => /\ \A k \in DOMAIN after.characters : after.characters[k] <= MaxGlyphAge
                /\ after.characters
                   = AgedOnce(before.characters) \o (IF appended THEN <<1>> ELSE <<>>)
                /\ appended => /\ Len(before.characters) * PosScale < before.maxLength
                               /\ now > before.nextCharTime

C28_Witness ==
    /\ obs.op = "updateColumns"
    /\ \E i \in DOMAIN columns :
          /\ ~ColumnReset(obs.pre.columns[i])
          /\ \E k \in DOMAIN obs.pre.columns[i].characters :
                obs.pre.columns[i].characters[k] = MaxGlyphAge
          /\ Len(columns[i].characters) > 0

\* the last call of cleanup() trimmed the buffers
Effective == obs.op = "cleanup" /\ lastCleanup # obs.pre.lastCleanup

\* q holds the last elements of s
IsSuffix(q, s) == Len(q) <= Len(s) /\ q = SubSeq(s, Len(s) - Len(q) + 1, Len(s))

\* C29: an effective run of cleanup() comes at least 5000 ms after the one
\* before and leaves every trail and glyph buffer within its cap, holding the
\* latest elements; a call of cleanup() inside the window changes nothing.
C29_CleanupThrottled ==
    /\ Effective
       => /\ now - obs.pre.lastCleanup >= CleanupThrottle
          /\ \A i \in DOMAIN particles3D :
                /\ Len(particles3D[i].trail) <= particles3D[i].maxTrailLength
                /\ obs.force \/ IsSuffix(particles3D[i].trail, obs.pre.particles3D[i].trail)
          /\ \A i \in DOMAIN columns :
                /\ Len(columns[i].characters) * PosScale <= columns[i].maxLength
                /\ obs.force \/ IsSuffix(columns[i].characters, obs.pre.columns[i].characters)
    /\ (obs.op = "cleanup" /\ ~Effective /\ ~obs.force)
       => /\ particles3D = obs.pre.particles3D
          /\ columns = obs.pre.columns

C29_Witness ==
    /\ Effective
    /\ ~obs.force
    /\ obs.pre.lastCleanup > 0
    /\ \E i \in DOMAIN columns : Len(columns[i].characters) < Len(obs.pre.columns[i].characters)

----------------------------------------------------------------------------
(* The hero field alone: the particles of one HeroCanvas on a tablet-class *)
(* device, frames rendered one after another with pointer moves in         *)
(* between.  setupCanvas either completes, leaving the grid, or throws     *)
(* before the grid is made, leaving HeroCanvas.spatialGrid null.           *)

HeroDraws ==
    {[x |-> 0, y |-> 2, vx |-> 0, vy |-> 2],
     [x |-> 2, y |-> 2, vx |-> 1, vy |-> 2],
     [x |-> 3, y |-> 1, vx |-> 3, vy |-> 1]}

MousePoints == {[x |-> 60 * PosScale, y |-> 50 * PosScale]}

InitGrid ==
    /\ DEVICE_CONFIG = Tablet
    /\ CONFIG = ConfigFor(DEVICE_CONFIG)
    /\ now = 0
    /\ lastFrameTime = 0
    /\ frameCount = 0
    /\ qualityLevel = QScale
    /\ fpsHistory = <<>>
    /\ particles3D = <<>>
    /\ columns = <<>>
    /\ lastCleanup = 0
    /\ \E ds \in [1 .. CONFIG.hero.particleCount -> HeroDraws] :
          heroParticles = [i \in Fill(CONFIG.hero.particleCount) |-> HeroParticleReset(ds[i])]
    /\ spatialGrid \in {SetupGrid(DEVICE_CONFIG, CONFIG), NoGrid}
    /\ mouse = [x |-> 0, y |-> 0]
    /\ lines = <<>>
    /\ LifecycleAtLoad
    /\ obs = [op |-> "init", ticks |-> 0, calls |-> <<>>]
    /\ gate = GateInit

\* one accepted frame of HeroCanvas.animate
HeroFrame ==
    /\ obs.ticks < MaxGridTicks
    /\ LET f == HeroFrameBody(DEVICE_CONFIG, CONFIG, heroParticles, spatialGrid, mouse)
       IN /\ heroParticles' = f.heroParticles
          /\ spatialGrid' = f.spatialGrid
          /\ lines' = f.lines
          /\ obs' = [op |-> "frame", ticks |-> obs.ticks + 1, calls |-> f.calls]
    /\ UNCHANGED <<DEVICE_CONFIG, now, gateVars, qualVars, fpsHistory, bufVars, mouse, gate, lifeVars>>

\* the mousemove handler of HeroCanvas.bindEvents
MouseMove(m) ==
    /\ mouse # m
    /\ mouse' = m
    /\ obs' = [obs EXCEPT !.op = "mouse"]
    /\ UNCHANGED <<DEVICE_CONFIG, now, gateVars, qualVars, fpsHistory, bufVars,
                   heroParticles, spatialGrid, lines, gate, lifeVars>>

NextGrid ==
    \/ HeroFrame
    \/ \E m \in MousePoints : MouseMove(m)

SpecGrid == InitGrid /\ [][NextGrid]_vars

\* the particles whose true distance to (x, y) is below radius
BruteForceNear(ps, x, y, radius) ==
    {i \in DOMAIN ps : distanceSquared(x, y, ps[i].x, ps[i].y) < radius * radius}

InField(p) ==
    /\ p.x >= -10 * PosScale /\ p.x <= (canvasW + 10) * PosScale
    /\ p.y >= -10 * PosScale /\ p.y <= (canvasH + 10) * PosScale

QueryPoints ==
    {[x |-> heroParticles[i].x, y |-> heroParticles[i].y] : i \in DOMAIN heroParticles}
    \cup {[x |-> 5 * PosScale, y |-> 50 * PosScale]}

QueryRadii == {CONFIG.hero.connectionDistance, 30 * PosScale}

SeqRange(q) == {q[i] : i \in DOMAIN q}

\* C8: with every particle inside the field, after the grid is cleared and
\* every particle inserted, getNearby(x, y, r) holds every particle whose true
\* distance to (x, y) is below r, for every query point and radius.
C8_NearbyIsSuperset ==
    (spatialGrid # NoGrid /\ \A i \in DOMAIN heroParticles : InField(heroParticles[i]))
    => \A q \in QueryPoints : \A r \in QueryRadii :
          BruteForceNear(heroParticles, q.x, q.y, r)
          \subseteq SeqRange(getNearby(RebuildGrid(spatialGrid, heroParticles), q.x, q.y, r))

\* the lines of the last pass that join particles i and j
LinesBetween(i, j) ==
    Cardinality({k \in DOMAIN lines : lines[k] = <<i, j>> \/ lines[k] = <<j, i>>})

LinesFrom(i) == Cardinality({k \in DOMAIN lines : lines[k][1] = i})

\* C9: after a connection pass, every unordered pair of particles closer than
\* connectionDistance whose two ends are below the per-particle cap is joined
\* by exactly one line.
C9_OneLinePerPair ==
    obs.op = "frame"
    => \A i \in DOMAIN heroParticles : \A j \in DOMAIN heroParticles :
          (/\ i < j
           /\ distanceSquared(heroParticles[i].x, heroParticles[i].y,
                              heroParticles[j].x, heroParticles[j].y)
                 < CONFIG.hero.connectionDistance * CONFIG.hero.connectionDistance
           /\ LinesFrom(i) < CONFIG.hero.maxConnections
           /\ LinesFrom(j) < CONFIG.hero.maxConnections)
          => LinesBetween(i, j) = 1

\* the positions in the last frame's call order of the calls of kind ev on
\* entity i
CallsOf(ev, i) == {k \in DOMAIN obs.calls : obs.calls[k].ev = ev /\ obs.calls[k].i = i}

CallsOfKind(ev) == {k \in DOMAIN obs.calls : obs.calls[k].ev = ev}

\* C16 as stated: in an accepted tick every update call comes before every
\* draw call, and every draw call before every connection line.
C16_PhasesStrictlyOrdered ==
    obs.op = "frame"
    => /\ \A u \in CallsOfKind("update") : \A dr \in CallsOfKind("draw") : u < dr
       /\ \A dr \in CallsOfKind("draw") : \A l \in CallsOfKind("line") : dr < l

\* C16 as amended: in an accepted tick each entity is updated once and drawn
\* once, its update before its own draw, and every update and draw call comes
\* before every connection line.
C16_EntityUpdatedBeforeDrawn ==
    obs.op = "frame"
    => /\ \A i \in DOMAIN heroParticles :
             /\ Cardinality(CallsOf("update", i)) = 1
             /\ Cardinality(CallsOf("draw", i)) = 1
             /\ \A u \in CallsOf("update", i) : \A dr \in CallsOf("draw", i) : u < dr
       /\ \A l \in CallsOfKind("line") :
             \A k \in CallsOfKind("update") \cup CallsOfKind("draw") : k < l

C16_Witness ==
    /\ obs.op = "frame"
    /\ Len(heroParticles) >= 2
    /\ CallsOfKind("line") # {}

\* the cells of the grid that hold particle i
CellsHolding(g, i) == {c \in DOMAIN g.grid : \E k \in DOMAIN g.grid[c] : g.grid[c][k] = i}

\* the particle lies inside the bounds the grid indexes
InIndexedBounds(g, p) ==
    /\ CellOf(p.x) >= 0 /\ CellOf(p.x) < g.cols
    /\ CellOf(p.y) >= 0 /\ CellOf(p.y) < g.rows

\* C17: at the getNearby calls of a tick's connection step every particle
\* inside the indexed bounds is stored in the cell of its position after the
\* tick's update, and in no other cell.
C17_IndexNeverStale ==
    (obs.op = "frame" /\ spatialGrid # NoGrid)
    => \A i \in DOMAIN heroParticles :
          InIndexedBounds(spatialGrid, heroParticles[i])
          => CellsHolding(spatialGrid, i)
             = {CellOf(heroParticles[i].y) * spatialGrid.cols + CellOf(heroParticles[i].x) + 1}

----------------------------------------------------------------------------
(* The page: the handlers of the three scenes, of IntroController and of   *)
(* MemoryManager, as functions of the state they read and write.  t is the *)
(* value of performance.now() or the timestamp of the frame callback.      *)

\* the state of the page as one record; polls collects the shouldRender calls
\* of the handler that is running
World ==
    [introCompleted |-> introCompleted, isActive |-> isActive,
     animationFrame |-> animationFrame, heroAnimationFrame |-> heroAnimationFrame,
     matrixAnimationFrame |-> matrixAnimationFrame, nextHandle |-> nextHandle,
     rafQueue |-> rafQueue, batch |-> batch, timers |-> timers, canvas |-> canvas,
     lastFrameTime |-> lastFrameTime, frameCount |-> frameCount,
     qualityLevel |-> qualityLevel, CONFIG |-> CONFIG,
     particles3D |-> particles3D, heroParticles |-> heroParticles,
     spatialGrid |-> spatialGrid, columns |-> columns, lines |-> lines,
     gate |-> gate, polls |-> <<>>]

\* the page state after a handler: every variable of World takes w's value
Becomes(w) ==
    /\ introCompleted' = w.introCompleted
    /\ isActive' = w.isActive
    /\ animationFrame' = w.animationFrame
    /\ heroAnimationFrame' = w.heroAnimationFrame
    /\ matrixAnimationFrame' = w.matrixAnimationFrame
    /\ nextHandle' = w.nextHandle
    /\ rafQueue' = w.rafQueue
    /\ batch' = w.batch
    /\ timers' = w.timers
    /\ canvas' = w.canvas
    /\ lastFrameTime' = w.lastFrameTime
    /\ frameCount' = w.frameCount
    /\ qualityLevel' = w.qualityLevel
    /\ CONFIG' = w.CONFIG
    /\ particles3D' = w.particles3D
    /\ heroParticles' = w.heroParticles
    /\ spatialGrid' = w.spatialGrid
    /\ columns' = w.columns
    /\ lines' = w.lines
    /\ gate' = w.gate

\* requestAnimationFrame(callback of scene), its id stored in the scene's handle
requestAnimationFrame(w, scene) ==
    LET id == w.nextHandle
        w1 == [w EXCEPT !.rafQueue = Append(@, [id |-> id, scene |-> scene]),
                        !.nextHandle = id + 1]
    IN CASE scene = "intro" -> [w1 EXCEPT !.animationFrame = id]
         [] scene = "hero" -> [w1 EXCEPT !.heroAnimationFrame = id]
         [] scene = "matrix" -> [w1 EXCEPT !.matrixAnimationFrame = id]

\* cancelAnimationFrame(id)
cancelAnimationFrame(w, id) ==
    [w EXCEPT !.rafQueue = SelectSeq(@, LAMBDA e : e.id # id),
              !.batch = SelectSeq(@, LAMBDA e : e.id # id)]

Poll_AlwaysStamp(w, scene, t) ==
    LET r == shouldRender(t, w.lastFrameTime)
        call == [scene |-> scene, time |-> t, result |-> r, own |-> w.gate.own[scene]]
    IN IF r
       THEN [w EXCEPT !.lastFrameTime = t, !.frameCount = @ + 1,
                      !.polls = Append(@, call),
                      !.gate.frames = @ + 1, !.gate.own[scene] = t]
       ELSE [w EXCEPT !.lastFrameTime = t, !.polls = Append(@, call)]

\* FPSController.shouldRender(t) called by scene; the call is noted in polls
\* with the time of the scene's own last accepted frame
Poll(w, scene, t) ==
    LET r == shouldRender(t, w.lastFrameTime)
        call == [scene |-> scene, time |-> t, result |-> r, own |-> w.gate.own[scene]]
    IN IF r
       THEN [w EXCEPT !.lastFrameTime = t, !.frameCount = @ + 1,
                      !.polls = Append(@, call),
                      !.gate.frames = @ + 1, !.gate.own[scene] = t]
       ELSE [w EXCEPT !.polls = Append(@, call)]

Accepted(w) == w.polls[Len(w.polls)].result

\* the values Math.random() returns in the runs of the whole page
IntroDraw == [x |-> 2, y |-> 2, z |-> 2, vx |-> 2, vy |-> 2, vz |-> 2]
HeroDrawAt(i) == [x |-> i % RandDen, y |-> (i \div 2) % RandDen, vx |-> (i + 1) % RandDen, vy |-> 2]
ColumnDraw == [y |-> 0, speed |-> 3, maxLength |-> 1, delay |-> 3]

\* IntroController.animate(t)
IntroAnimate(w, t) ==
    IF ~w.isActive.intro \/ w.introCompleted THEN w
    ELSE LET w1 == Poll(w, "intro", t) IN
         IF ~Accepted(w1) THEN requestAnimationFrame(w1, "intro")
         ELSE requestAnimationFrame(
                  [w1 EXCEPT !.particles3D =
                       [i \in DOMAIN w1.particles3D |->
                            Particle3DUpdate(DEVICE_CONFIG, w1.particles3D[i], t, IntroDraw)]],
                  "intro")

\* HeroCanvas.animate(t)
HeroAnimate(w, t) ==
    IF ~w.isActive.hero THEN w
    ELSE LET w1 == Poll(w, "hero", t) IN
         IF ~Accepted(w1) THEN requestAnimationFrame(w1, "hero")
         ELSE LET u == updateQuality(w1.frameCount, w1.qualityLevel, w1.CONFIG,
                                     getAverageFPS(fpsHistory))
                  f == HeroFrameBody(DEVICE_CONFIG, u.CONFIG, w1.heroParticles,
                                     w1.spatialGrid, mouse)
              IN requestAnimationFrame(
                     [w1 EXCEPT !.frameCount = u.frameCount,
                                !.qualityLevel = u.qualityLevel,
                                !.CONFIG = u.CONFIG,
                                !.heroParticles = f.heroParticles,
                                !.spatialGrid = f.spatialGrid,
                                !.lines = f.lines,
                                !.gate.checkedAt =
                                    IF u.checked THEN @ \cup {w1.gate.frames} ELSE @],
                     "hero")

\* MatrixCanvas.animate(t)
MatrixAnimate(w, t) ==
    IF ~w.isActive.matrix THEN w
    ELSE LET w1 == Poll(w, "matrix", t) IN
         IF ~Accepted(w1) THEN requestAnimationFrame(w1, "matrix")
         ELSE requestAnimationFrame(
                  [w1 EXCEPT !.columns =
                       [i \in DOMAIN w1.columns |->
                            MatrixColumnUpdate(DEVICE_CONFIG, w1.CONFIG, w1.columns[i], t,
                                               ColumnDraw)]],
                  "matrix")

\* HeroCanvas.init
HeroInit(w, t) ==
    HeroAnimate([w EXCEPT !.canvas.hero = TRUE,
                          !.spatialGrid = SetupGrid(DEVICE_CONFIG, w.CONFIG),
                          !.heroParticles = [i \in Fill(w.CONFIG.hero.particleCount) |->
                                                 HeroParticleReset(HeroDrawAt(i))],
                          !.isActive.hero = TRUE,
                          !.gate.destroyed.hero = FALSE], t)

\* MatrixCanvas.init
MatrixInit(w, t) ==
    MatrixAnimate([w EXCEPT !.canvas.matrix = TRUE,
                            !.columns = [i \in Fill(w.CONFIG.matrix.columns) |->
                                             MatrixColumnReset(w.CONFIG, ColumnDraw)],
                            !.isActive.matrix = TRUE,
                            !.gate.destroyed.matrix = FALSE], t)

\* HeroCanvas.destroy
HeroDestroy(w) ==
    LET w1 == IF w.heroAnimationFrame # 0
              THEN [cancelAnimationFrame(w, w.heroAnimationFrame)
                        EXCEPT !.heroAnimationFrame = 0]
              ELSE w
    IN [w1 EXCEPT !.isActive.hero = FALSE, !.heroParticles = <<>>, !.spatialGrid = NoGrid,
                  !.gate.destroyed.hero = TRUE]

\* MatrixCanvas.destroy
MatrixDestroy(w) ==
    LET w1 == IF w.matrixAnimationFrame # 0
              THEN [cancelAnimationFrame(w, w.matrixAnimationFrame)
                        EXCEPT !.matrixAnimationFrame = 0]
              ELSE w
    IN [w1 EXCEPT !.isActive.matrix = FALSE, !.columns = <<>>,
                  !.gate.destroyed.matrix = TRUE]

\* setTimeout(callback kind, delay) at time t
setTimeout(w, kind, t, delay) ==
    [w EXCEPT !.timers = Append(@, [kind |-> kind, due |-> t + delay])]

IntroDuration == 5000
MainSiteDelay == 1000
ResumeDelay == 100

complete_NoHandoff(w, t) ==
    LET w1 == IF w.animationFrame # 0
              THEN [cancelAnimationFrame(w, w.animationFrame) EXCEPT !.animationFrame = 0]
              ELSE w
    IN [w1 EXCEPT !.isActive.intro = FALSE, !.introCompleted = TRUE]

\* IntroController.complete
complete(w, t) ==
    LET w1 == IF w.animationFrame # 0
              THEN [cancelAnimationFrame(w, w.animationFrame) EXCEPT !.animationFrame = 0]
              ELSE w
    IN setTimeout([w1 EXCEPT !.isActive.intro = FALSE, !.introCompleted = TRUE],
                  "initScenes", t, MainSiteDelay)

\* IntroController.start
start(w, t) ==
    setTimeout(IntroAnimate([w EXCEPT !.isActive.intro = TRUE, !.gate.startedAt = t], t),
               "autoComplete", t, IntroDuration)

\* IntroController.replay
replay(w, t) ==
    start(MatrixDestroy(HeroDestroy([w EXCEPT !.introCompleted = FALSE])), t)

\* MemoryManager.pauseAnimations, the hero and matrix scenes only
pauseAnimations_NotIntro(w) ==
    LET w1 == IF w.heroAnimationFrame # 0
              THEN [cancelAnimationFrame(w, w.heroAnimationFrame)
                        EXCEPT !.heroAnimationFrame = 0]
              ELSE w
        w2 == IF w1.matrixAnimationFrame # 0
              THEN [cancelAnimationFrame(w1, w1.matrixAnimationFrame)
                        EXCEPT !.matrixAnimationFrame = 0]
              ELSE w1
    IN [w2 EXCEPT !.isActive.hero = FALSE, !.isActive.matrix = FALSE]

\* MemoryManager.pauseAnimations
pauseAnimations(w) ==
    LET w0 == [w EXCEPT !.isActive = [s \in Scenes |-> FALSE]]
        w1 == IF w0.heroAnimationFrame # 0
              THEN [cancelAnimationFrame(w0, w0.heroAnimationFrame)
                        EXCEPT !.heroAnimationFrame = 0]
              ELSE w0
        w2 == IF w1.matrixAnimationFrame # 0
              THEN [cancelAnimationFrame(w1, w1.matrixAnimationFrame)
                        EXCEPT !.matrixAnimationFrame = 0]
              ELSE w1
    IN IF w2.animationFrame # 0
       THEN [cancelAnimationFrame(w2, w2.animationFrame) EXCEPT !.animationFrame = 0]
       ELSE w2

\* the callback resumeAnimations schedules
resumeCallback(w, t) ==
    IF w.introCompleted
    THEN LET w1 == [w EXCEPT !.isActive.hero = TRUE, !.isActive.matrix = TRUE]
             w2 == IF w1.canvas.hero THEN HeroAnimate(w1, t) ELSE w1
         IN IF w2.canvas.matrix THEN MatrixAnimate(w2, t) ELSE w2
    ELSE IntroAnimate([w EXCEPT !.isActive.intro = TRUE], t)

\* MemoryManager.resumeAnimations
resumeAnimations(w, t) == setTimeout(w, "resume", t, ResumeDelay)

----------------------------------------------------------------------------
(* The whole page: from IntroController.start at load, frames delivered to *)
(* the pending callbacks in request order, timers fired in due order, and  *)
(* the user's clicks and tab switches in between.                          *)

\* the part of the page state that the pause and resume handlers act on
LifePart(w) ==
    [introCompleted |-> w.introCompleted, isActive |-> w.isActive,
     animationFrame |-> w.animationFrame, heroAnimationFrame |-> w.heroAnimationFrame,
     matrixAnimationFrame |-> w.matrixAnimationFrame,
     rafQueue |-> w.rafQueue, batch |-> w.batch]

\* the page state at load on device dev, before IntroController.start
AtLoad(dev) ==
    [introCompleted |-> FALSE, isActive |-> [s \in Scenes |-> FALSE],
     animationFrame |-> 0, heroAnimationFrame |-> 0, matrixAnimationFrame |-> 0,
     nextHandle |-> 1, rafQueue |-> <<>>, batch |-> <<>>, timers |-> <<>>,
     canvas |-> [hero |-> FALSE, matrix |-> FALSE],
     lastFrameTime |-> 0, frameCount |-> 0, qualityLevel |-> QScale,
     CONFIG |-> ConfigFor(dev),
     particles3D |-> [i \in Fill(ConfigFor(dev).intro.particleCount) |->
                          Particle3DReset(dev, IntroDraw)],
     heroParticles |-> <<>>, spatialGrid |-> NoGrid, columns |-> <<>>, lines |-> <<>>,
     gate |-> [frames |-> 0, checkedAt |-> {}, own |-> [s \in Scenes |-> 0],
               delivered |-> 0, events |-> 0, pausedBelow |-> 0,
               since |-> [active |-> [s \in Scenes |-> FALSE], n |-> 3],
               destroyed |-> [hero |-> FALSE, matrix |-> FALSE],
               lost |-> FALSE, startedAt |-> 0,
               atLoss |-> <<0, 0, 0>>, recovered |-> FALSE],
     polls |-> <<>>]

Loaded(w) ==
    /\ introCompleted = w.introCompleted
    /\ isActive = w.isActive
    /\ animationFrame = w.animationFrame
    /\ heroAnimationFrame = w.heroAnimationFrame
    /\ matrixAnimationFrame = w.matrixAnimationFrame
    /\ nextHandle = w.nextHandle
    /\ rafQueue = w.rafQueue
    /\ batch = w.batch
    /\ timers = w.timers
    /\ canvas = w.canvas
    /\ lastFrameTime = w.lastFrameTime
    /\ frameCount = w.frameCount
    /\ qualityLevel = w.qualityLevel
    /\ CONFIG = w.CONFIG
    /\ particles3D = w.particles3D
    /\ heroParticles = w.heroParticles
    /\ spatialGrid = w.spatialGrid
    /\ columns = w.columns
    /\ lines = w.lines
    /\ gate = w.gate

LoadTimes == {20}

\* the page once IntroController.init has called start()
InitPage(devices) ==
    \E dev \in devices : \E t0 \in LoadTimes :
        /\ DEVICE_CONFIG = dev
        /\ now = t0
        /\ fpsHistory = <<>>
        /\ lastCleanup = 0
        /\ mouse = [x |-> 0, y |-> 0]
        /\ hidden = FALSE
        /\ Loaded(start(AtLoad(dev), t0))
        /\ obs = [op |-> "start", prevOp |-> "load", pre |-> LifePart(AtLoad(dev)),
                  polls |-> start(AtLoad(dev), t0).polls, id |-> 0]

\* the history kept beside the page state: the handle ids issued before the
\* last pause, the isActive flags just before it and the number of handlers
\* run since (counted up to 3)
Noted(op, w) ==
    IF op = "hide"
    THEN [w EXCEPT !.gate.pausedBelow = w.nextHandle,
                   !.gate.since = [active |-> isActive, n |-> 0]]
    ELSE [w EXCEPT !.gate.since.n = Min(3, @ + 1)]

\* the handler op has run and left the page in state w; id is the frame
\* request that called it, 0 when it was not called by a frame
Done(op, w) ==
    /\ Becomes(Noted(op, w))
    /\ obs' = [op |-> op, prevOp |-> obs.op, pre |-> LifePart(World), polls |-> w.polls,
               id |-> IF batch # <<>> THEN Head(batch).id ELSE 0]

\* the platform starts a frame dt after the last event: the callbacks requested
\* so far are the ones it will call.  No frame is delivered to a hidden page.
FrameStart(dt, bound) ==
    /\ batch = <<>>
    /\ rafQueue # <<>>
    /\ ~hidden
    /\ gate.delivered < bound
    /\ \A i \in DOMAIN timers : timers[i].due >= now + dt
    /\ now' = now + dt
    /\ Done("frame", [World EXCEPT !.batch = rafQueue, !.rafQueue = <<>>,
                                   !.gate.delivered = @ + 1])
    /\ UNCHANGED <<DEVICE_CONFIG, fpsHistory, lastCleanup, mouse, hidden>>

\* the frame callback of the intro: IntroController.animate(time)
RunIntro ==
    /\ batch # <<>>
    /\ Head(batch).scene = "intro"
    /\ Done("animate", IntroAnimate([World EXCEPT !.batch = Tail(@)], now))
    /\ UNCHANGED <<DEVICE_CONFIG, now, fpsHistory, lastCleanup, mouse, hidden>>

\* the frame callback of the hero scene: HeroCanvas.animate(time)
RunHero ==
    /\ batch # <<>>
    /\ Head(batch).scene = "hero"
    /\ Done("animate", HeroAnimate([World EXCEPT !.batch = Tail(@)], now))
    /\ UNCHANGED <<DEVICE_CONFIG, now, fpsHistory, lastCleanup, mouse, hidden>>

\* the frame callback of the matrix scene: MatrixCanvas.animate(time)
RunMatrix ==
    /\ batch # <<>>
    /\ Head(batch).scene = "matrix"
    /\ Done("animate", MatrixAnimate([World EXCEPT !.batch = Tail(@)], now))
    /\ UNCHANGED <<DEVICE_CONFIG, now, fpsHistory, lastCleanup, mouse, hidden>>

\* the timer that fires next: the earliest due, the first created among equals
NextTimer ==
    CHOOSE i \in DOMAIN timers :
        \A j \in DOMAIN timers :
            timers[i].due < timers[j].due \/ (timers[i].due = timers[j].due /\ i <= j)

RemoveAt(q, i) == SubSeq(q, 1, i - 1) \o SubSeq(q, i + 1, Len(q))

TimerDue(kind) ==
    /\ batch = <<>>
    /\ timers # <<>>
    /\ timers[NextTimer].kind = kind

FireTime == Max(now, timers[NextTimer].due)

\* the auto-complete timer of IntroController.start
FireAutoComplete ==
    /\ TimerDue("autoComplete")
    /\ now' = FireTime
    /\ Done("complete", complete([World EXCEPT !.timers = RemoveAt(@, NextTimer)], FireTime))
    /\ UNCHANGED <<DEVICE_CONFIG, fpsHistory, lastCleanup, mouse, hidden>>

\* the timer of IntroController.complete: HeroCanvas.init(); MatrixCanvas.init()
FireInitScenes ==
    /\ TimerDue("initScenes")
    /\ now' = FireTime
    /\ Done("initScenes",
            MatrixInit(HeroInit([World EXCEPT !.timers = RemoveAt(@, NextTimer)], FireTime),
                       FireTime))
    /\ UNCHANGED <<DEVICE_CONFIG, fpsHistory, lastCleanup, mouse, hidden>>

\* the timer of MemoryManager.resumeAnimations
FireResume ==
    /\ TimerDue("resume")
    /\ now' = FireTime
    /\ Done("resume",
            resumeCallback([World EXCEPT !.timers = RemoveAt(@, NextTimer)], FireTime))
    /\ UNCHANGED <<DEVICE_CONFIG, fpsHistory, lastCleanup, mouse, hidden>>

UserEvent(w) == [w EXCEPT !.gate.events = @ + 1]

\* a click or the space bar on the intro overlay: IntroController.skip
Skip ==
    /\ batch = <<>>
    /\ ~hidden
    /\ gate.events < MaxEvents
    /\ ~introCompleted /\ isActive.intro
    /\ Done("skip", complete(UserEvent(World), now))
    /\ UNCHANGED <<DEVICE_CONFIG, now, fpsHistory, lastCleanup, mouse, hidden>>

\* a click on the replay button of the main site
Replay ==
    /\ batch = <<>>
    /\ ~hidden
    /\ gate.events < MaxEvents
    /\ introCompleted
    /\ Done("replay", replay(MatrixDestroy(HeroDestroy(UserEvent(World))), now))
    /\ UNCHANGED <<DEVICE_CONFIG, now, fpsHistory, lastCleanup, mouse, hidden>>

\* visibilitychange with document.hidden: MemoryManager.pauseAnimations
Hide ==
    /\ batch = <<>>
    /\ ~hidden
    /\ gate.events < MaxEvents
    /\ hidden' = TRUE
    /\ Done("hide", pauseAnimations(UserEvent(World)))
    /\ UNCHANGED <<DEVICE_CONFIG, now, fpsHistory, lastCleanup, mouse>>

\* visibilitychange with the page visible again: MemoryManager.resumeAnimations
Show ==
    /\ batch = <<>>
    /\ hidden
    /\ gate.events < MaxEvents
    /\ hidden' = FALSE
    /\ Done("show", resumeAnimations(UserEvent(World), now))
    /\ UNCHANGED <<DEVICE_CONFIG, now, fpsHistory, lastCleanup, mouse>>

FrameDts == {34}
LifeDevices == {Mobile}

Init == InitPage(LifeDevices)

Next ==
    \/ \E dt \in FrameDts : FrameStart(dt, MaxFrames)
    \/ RunIntro
    \/ RunHero
    \/ RunMatrix
    \/ FireAutoComplete
    \/ FireInitScenes
    \/ FireResume
    \/ Skip
    \/ Replay
    \/ Hide
    \/ Show

Spec == Init /\ [][Next]_vars

\* every scene inactive and every frame handle null
Paused(l) ==
    /\ \A s \in Scenes : ~l.isActive[s]
    /\ l.animationFrame = 0
    /\ l.heroAnimationFrame = 0
    /\ l.matrixAnimationFrame = 0

\* C6: pauseAnimations leaves the three isActive flags false and the three
\* handles null, applying it twice gives the state that applying it once
\* gives, and a call on an already paused page changes nothing.
C6_PauseIdempotent ==
    /\ Paused(pauseAnimations(World))
    /\ pauseAnimations(pauseAnimations(World)) = pauseAnimations(World)
    /\ obs.op = "hide" => Paused(LifePart(World))
    /\ (obs.op = "hide" /\ Paused(obs.pre)) => LifePart(World) = obs.pre

\* a second pause right after a first one: hidden, shown, hidden again before
\* the resume timer fired
C6_Witness == obs.op = "hide" /\ obs.prevOp = "show" /\ Paused(obs.pre)

\* the frame requests of scene s pending in page state l
Pending(l, s) ==
    Cardinality({i \in DOMAIN l.rafQueue : l.rafQueue[i].scene = s})
    + Cardinality({i \in DOMAIN l.batch : l.batch[i].scene = s})

HandleOf(l, s) ==
    CASE s = "intro" -> l.animationFrame
      [] s = "hero" -> l.heroAnimationFrame
      [] s = "matrix" -> l.matrixAnimationFrame

\* C7: when the resume callback fires on a scene that is active with its frame
\* request pending, the scene keeps its handle and gets no further request.
C7_ResumeOnActiveIsNoOp ==
    obs.op = "resume"
    => \A s \in Scenes :
          (obs.pre.isActive[s] /\ Pending(obs.pre, s) = 1)
          => /\ Pending(LifePart(World), s) = 1
             /\ HandleOf(LifePart(World), s) = HandleOf(obs.pre, s)

\* a poll of the running handler was accepted: the handler went on to update
\* and draw
DidWork == \E k \in DOMAIN obs.polls : obs.polls[k].result

\* C14: once the hidden signal is handled every isActive flag is false and
\* every handle null, and no frame request issued before the pause updates or
\* draws afterwards.
C14_PauseHaltsEveryLoop ==
    /\ obs.op = "hide" => Paused(LifePart(World))
    /\ (obs.op = "animate" /\ obs.id < gate.pausedBelow) => ~DidWork

\* C15: when the resume callback follows a hide and a show with no handler in
\* between, a scene is active after it exactly if it was active just before
\* the hide.
C15_ResumeRestoresPhase ==
    (obs.op = "resume" /\ gate.since.n = 2)
    => \A s \in Scenes : isActive[s] = gate.since.active[s]

\* C18: a destroyed scene stays inactive until its init() runs again.
C18_DestroyedStaysInactive ==
    /\ gate.destroyed.hero => ~isActive.hero
    /\ gate.destroyed.matrix => ~isActive.matrix

----------------------------------------------------------------------------
(* The frame loops over a long run: the page on a reduced-motion device    *)
(* (no entities), frames delivered at the display rate, the intro skipped  *)
(* or completed at any moment.                                             *)

LoopDts == {17}
LoopDevices == {ReducedMotion}

InitLoop == InitPage(LoopDevices)

NextLoop ==
    \/ \E dt \in LoopDts : FrameStart(dt, MaxLoopFrames)
    \/ RunIntro
    \/ RunHero
    \/ RunMatrix
    \/ FireAutoComplete
    \/ FireInitScenes
    \/ Skip

SpecLoop == InitLoop /\ [][NextLoop]_vars

\* C5: every poll of the gate by the hero or the matrix scene is decided by the
\* time since that scene's own last accepted frame: accepted exactly when a
\* frame interval has passed since then.
C5_GatePerScene ==
    \A k \in DOMAIN obs.polls :
        obs.polls[k].scene \in {"hero", "matrix"}
        => obs.polls[k].result = shouldRender(obs.polls[k].time, obs.polls[k].own)

\* C10: the quality comparison has run at the 60th, 120th, ... accepted frame
\* and at no other.
C10_CheckEverySixtyAccepted ==
    gate.checkedAt = {n \in 1 .. gate.frames : n % QualityCheckPeriod = 0}

----------------------------------------------------------------------------
(* Failing frames: the page on a mobile device where the clear of the      *)
(* canvas, or one entity's update() or draw(), throws inside an accepted   *)
(* frame.  A call that throws does so on entry, before it changes its      *)
(* entity.                                                                 *)

MaxFailAt == 2

\* the places of the try block of animate where a call can throw, for a scene
\* of n entities
FailPoints(n) ==
    {[i |-> 0, phase |-> "clear"]}
    \cup {[i |-> i, phase |-> ph] : i \in 1 .. Min(n, MaxFailAt), ph \in {"update", "draw"}}

\* the entities forEach(e => { e.update(); e.draw(); }) has updated, and
\* drawn, when the call at throws
UpdatedAt(at) == IF at.phase = "draw" THEN 1 .. at.i ELSE 1 .. (at.i - 1)

DrawnAt(at) == 1 .. (at.i - 1)

\* the entity collection of a scene
Entities(w, s) ==
    CASE s = "intro" -> w.particles3D
      [] s = "hero" -> w.heroParticles
      [] s = "matrix" -> w.columns

\* the catch block of HeroCanvas.animate and MatrixCanvas.animate
animateFailed_AllScenes(w, scene) == [w EXCEPT !.isActive = [s \in Scenes |-> FALSE]]

animateFailed(w, scene) == [w EXCEPT !.isActive[scene] = FALSE]

\* IntroController.animate(t), accepted by the gate, where the call at throws:
\* the catch block calls complete()
IntroAnimateThrows(w, t, at) ==
    LET w1 == Poll(w, "intro", t)
    IN complete([w1 EXCEPT !.particles3D =
                     [i \in DOMAIN w1.particles3D |->
                          IF i \in UpdatedAt(at)
                          THEN Particle3DUpdate(DEVICE_CONFIG, w1.particles3D[i], t, IntroDraw)
                          ELSE w1.particles3D[i]]], t)

\* HeroCanvas.animate(t), accepted by the gate, where the call at throws
HeroAnimateThrows(w, t, at) ==
    LET w1 == Poll(w, "hero", t)
        u == updateQuality(w1.frameCount, w1.qualityLevel, w1.CONFIG,
                           getAverageFPS(fpsHistory))
        g1 == IF at.phase # "clear" /\ w1.spatialGrid # NoGrid
              THEN RebuildGrid(w1.spatialGrid, w1.heroParticles)
              ELSE w1.spatialGrid
    IN animateFailed(
           [w1 EXCEPT !.frameCount = u.frameCount,
                      !.qualityLevel = u.qualityLevel,
                      !.CONFIG = u.CONFIG,
                      !.heroParticles =
                          [i \in DOMAIN w1.heroParticles |->
                               IF i \in UpdatedAt(at)
                               THEN HeroParticleUpdate(DEVICE_CONFIG, u.CONFIG,
                                                       w1.heroParticles[i], mouse)
                               ELSE w1.heroParticles[i]],
                      !.spatialGrid = g1,
                      !.gate.checkedAt = IF u.checked THEN @ \cup {w1.gate.frames} ELSE @],
           "hero")

\* MatrixCanvas.animate(t), accepted by the gate, where the call at throws
MatrixAnimateThrows(w, t, at) ==
    LET w1 == Poll(w, "matrix", t)
    IN animateFailed(
           [w1 EXCEPT !.columns =
                [i \in DOMAIN w1.columns |->
                     IF i \in UpdatedAt(at)
                     THEN MatrixColumnUpdate(DEVICE_CONFIG, w1.CONFIG, w1.columns[i], t,
                                             ColumnDraw)
                     ELSE w1.columns[i]]],
           "matrix")

\* the page after a frame callback that threw at the call at; obs keeps the
\* collections and the request counter the callback found
Failed(scene, at, w) ==
    /\ Becomes(Noted("failed", w))
    /\ obs' = [op |-> "failed", prevOp |-> obs.op, pre |-> LifePart(World),
               polls |-> w.polls, id |-> Head(batch).id,
               scene |-> scene, at |-> at,
               before |-> [s \in Scenes |-> Entities(World, s)],
               issued |-> nextHandle,
               updated |-> UpdatedAt(at), drawn |-> DrawnAt(at)]

\* the frame callback at the head of the batch is the scene's, and animate
\* reaches its update and draw pass
ReachesPass(scene) ==
    /\ batch # <<>>
    /\ Head(batch).scene = scene
    /\ isActive[scene]
    /\ scene = "intro" => ~introCompleted
    /\ shouldRender(now, lastFrameTime)

\* the frame callback of the intro throws at the call at
IntroThrows ==
    \E at \in FailPoints(Len(particles3D)) :
        /\ ReachesPass("intro")
        /\ Failed("intro", at, IntroAnimateThrows([World EXCEPT !.batch = Tail(@)], now, at))
        /\ UNCHANGED <<DEVICE_CONFIG, now, fpsHistory, lastCleanup, mouse, hidden>>

\* the frame callback of the hero scene throws at the call at
HeroThrows ==
    \E at \in FailPoints(Len(heroParticles)) :
        /\ ReachesPass("hero")
        /\ Failed("hero", at, HeroAnimateThrows([World EXCEPT !.batch = Tail(@)], now, at))
        /\ UNCHANGED <<DEVICE_CONFIG, now, fpsHistory, lastCleanup, mouse, hidden>>

\* the frame callback of the matrix scene throws at the call at
MatrixThrows ==
    \E at \in FailPoints(Len(columns)) :
        /\ ReachesPass("matrix")
        /\ Failed("matrix", at, MatrixAnimateThrows([World EXCEPT !.batch = Tail(@)], now, at))
        /\ UNCHANGED <<DEVICE_CONFIG, now, fpsHistory, lastCleanup, mouse, hidden>>

NextFail ==
    \/ \E dt \in FrameDts : FrameStart(dt, MaxFrames)
    \/ RunIntro
    \/ RunHero
    \/ RunMatrix
    \/ FireAutoComplete
    \/ FireInitScenes
    \/ Skip
    \/ IntroThrows
    \/ HeroThrows
    \/ MatrixThrows

SpecFail == Init /\ [][NextFail]_vars

\* C19: a frame callback that throws leaves its scene inactive and issues no
\* frame request, and leaves the flag, the handle, the pending requests and
\* the entities of every other scene as they were.
C19_FailureContained ==
    obs.op = "failed"
    => /\ ~isActive[obs.scene]
       /\ nextHandle = obs.issued
       /\ \A s \in Scenes \ {obs.scene} :
             /\ isActive[s] = obs.pre.isActive[s]
             /\ HandleOf(LifePart(World), s) = HandleOf(obs.pre, s)
             /\ Pending(LifePart(World), s) = Pending(obs.pre, s)
             /\ Entities(World, s) = obs.before[s]

C19_Witness ==
    /\ obs.op = "failed"
    /\ obs.at.i >= 1
    /\ \E s \in Scenes \ {obs.scene} :
          /\ isActive[s]
          /\ Pending(LifePart(World), s) > 0
          /\ Entities(World, s) # <<>>

\* C20: when one entity's update or draw throws, every other entity of the
\* scene is still updated and drawn in that tick, and the scene stays active
\* with a frame requested.
C20_BatchSurvivesEntityFailure ==
    (obs.op = "failed" /\ obs.at.i >= 1)
    => /\ \A k \in DOMAIN obs.before[obs.scene] \ {obs.at.i} :
             k \in obs.updated /\ k \in obs.drawn
       /\ isActive[obs.scene]
       /\ nextHandle > obs.issued

----------------------------------------------------------------------------
(* The hero field of a desktop: twelve particles, of which the first four  *)
(* start either where reset() put them or on the wrap margin, where drift  *)
(* or a resize of the canvas has taken them.                               *)

\* a particle of speed (vx, vy) whose base is (bx, by), displaced from it by
\* (ox, oy), in pixels
Drifted(bx, by, ox, oy, vx, vy) ==
    [x |-> (bx + ox) * PosScale, y |-> (by + oy) * PosScale,
     baseX |-> bx * PosScale, baseY |-> by * PosScale,
     vx |-> vx, vy |-> vy, mouseForceX |-> 0, mouseForceY |-> 0]

EdgeStarts ==
    <<Drifted(0, 50, -10, 0, -PosScale \div 2, 0),
      Drifted(100, 0, 0, -10, 0, -PosScale \div 2),
      Drifted(canvasW, 50, 10, 0, PosScale \div 4, 0)>>

\* the start of particle i: choice 0 is where reset() put it
FieldStart(i, choice) ==
    IF choice = 0 THEN HeroParticleReset(HeroDrawAt(i)) ELSE EdgeStarts[choice]

InitField ==
    /\ DEVICE_CONFIG = Desktop
    /\ CONFIG = ConfigFor(DEVICE_CONFIG)
    /\ now = 0
    /\ lastFrameTime = 0
    /\ frameCount = 0
    /\ qualityLevel = QScale
    /\ fpsHistory = <<>>
    /\ particles3D = <<>>
    /\ columns = <<>>
    /\ lastCleanup = 0
    /\ \E choice \in [1 .. 4 -> 0 .. Len(EdgeStarts)] :
          heroParticles = [i \in Fill(CONFIG.hero.particleCount) |->
                               FieldStart(i, IF i <= 4 THEN choice[i] ELSE 0)]
    /\ spatialGrid \in {SetupGrid(DEVICE_CONFIG, CONFIG), NoGrid}
    /\ mouse = [x |-> 0, y |-> 0]
    /\ lines = <<>>
    /\ LifecycleAtLoad
    /\ obs = [op |-> "init", ticks |-> 0, calls |-> <<>>]
    /\ gate = GateInit

SpecField == InitField /\ [][NextGrid]_vars

\* C25: every hero particle lies within the wrap margin of the canvas, x in
\* [-10, width + 10] and y in [-10, height + 10], after every update.
C25_InsideWrapMargin ==
    \A i \in DOMAIN heroParticles :
        /\ heroParticles[i].x >= -10 * PosScale
        /\ heroParticles[i].x <= (canvasW + 10) * PosScale
        /\ heroParticles[i].y >= -10 * PosScale
        /\ heroParticles[i].y <= (canvasH + 10) * PosScale

C25_Witness ==
    /\ obs.op = "frame"
    /\ \E i \in DOMAIN heroParticles :
          heroParticles[i].x = (canvasW + 10) * PosScale /\ heroParticles[i].vx < 0
    /\ \E i \in DOMAIN heroParticles :
          heroParticles[i].x = -10 * PosScale /\ heroParticles[i].vx > 0
    /\ \E i \in DOMAIN heroParticles :
          heroParticles[i].y = (canvasH + 10) * PosScale /\ heroParticles[i].vy < 0

\* C26: findConnections returns, with the spatial index as without it,
\* exactly the other particles whose squared distance to the particle is
\* below connectionDistance squared.
C26_ConnectionsSameWithIndex ==
    obs.op = "frame"
    => \A i \in DOMAIN heroParticles :
          SeqRange(findConnections(DEVICE_CONFIG, CONFIG, heroParticles, spatialGrid, i))
          = BruteForceNear(heroParticles, heroParticles[i].x, heroParticles[i].y,
                           CONFIG.hero.connectionDistance) \ {i}

\* the candidates drawConnections finds for source i, in the order it finds
\* them, that are not i and are closer than connectionDistance
Qualifying(i) ==
    SelectSeq(IF spatialGrid # NoGrid
              THEN getNearby(spatialGrid, heroParticles[i].x, heroParticles[i].y,
                             CONFIG.hero.connectionDistance)
              ELSE SliceAfter(heroParticles, i),
              LAMBDA j : j # i /\ distanceSquared(heroParticles[i].x, heroParticles[i].y,
                                                  heroParticles[j].x, heroParticles[j].y)
                                  < CONFIG.hero.connectionDistance * CONFIG.hero.connectionDistance)

\* the targets of the lines of the last pass drawn from i, in drawing order
TargetsOf(i) ==
    LET from == SelectSeq(lines, LAMBDA l : l[1] = i)
    IN [k \in DOMAIN from |-> from[k][2]]

\* C27: in a connection pass the lines drawn from a particle are at most
\* maxConnections, go to the first qualifying candidates in the order they are
\* found, and none goes to the particle itself or to one at squared distance
\* connectionDistance squared or more.
C27_ConnectionsCapped ==
    obs.op = "frame"
    => \A i \in DOMAIN heroParticles :
          /\ Len(TargetsOf(i)) <= CONFIG.hero.maxConnections
          /\ TargetsOf(i) = SubSeq(Qualifying(i), 1,
                                   Min(Len(Qualifying(i)), CONFIG.hero.maxConnections))
          /\ \A k \in DOMAIN TargetsOf(i) :
                /\ TargetsOf(i)[k] # i
                /\ distanceSquared(heroParticles[i].x, heroParticles[i].y,
                                   heroParticles[TargetsOf(i)[k]].x,
                                   heroParticles[TargetsOf(i)[k]].y)
                   < CONFIG.hero.connectionDistance * CONFIG.hero.connectionDistance

C27_Witness ==
    /\ obs.op = "frame"
    /\ \E i \in DOMAIN heroParticles :
          /\ Len(Qualifying(i)) > CONFIG.hero.maxConnections
          /\ Len(TargetsOf(i)) = CONFIG.hero.maxConnections
    /\ \E i \in DOMAIN heroParticles : Len(TargetsOf(i)) < Len(heroParticles) - 1

----------------------------------------------------------------------------
(* Loss and restoration of the drawing surface, and the teardown of the    *)
(* page: the page on a mobile device, where the webglcontextlost and       *)
(* webglcontextrestored signals and the unload of the page arrive at any   *)
(* moment between two frames.  gate.lost is true from a lost signal to the *)
(* next restored signal, gate.atLoss holds the configured counts the last  *)
(* lost signal found, and gate.recovered is true once a restored signal    *)
(* has followed it.                                                        *)

ContextLossDelay == 100
ContextRestoreDelay == 500
StaticModeDelay == 1000

\* the place of scene s in Counts
SceneIndex(s) == CASE s = "intro" -> 1 [] s = "hero" -> 2 [] s = "matrix" -> 3

\* the three configured entity counts
Counts(cfg) == <<cfg.intro.particleCount, cfg.hero.particleCount, cfg.matrix.columns>>

\* ErrorHandler.handleCanvasError: the static fallback is applied by a timer
handleCanvasError(w, t) == setTimeout(w, "staticMode", t, StaticModeDelay)

staticMode_Truncating(w) ==
    [w EXCEPT !.CONFIG.intro.particleCount = 0,
              !.CONFIG.hero.particleCount = 0,
              !.CONFIG.matrix.columns = 0,
              !.particles3D = <<>>, !.heroParticles = <<>>, !.columns = <<>>]

\* the timer callback of ErrorHandler.handleCanvasError
staticMode(w) ==
    [w EXCEPT !.CONFIG.intro.particleCount = 0,
              !.CONFIG.hero.particleCount = 0,
              !.CONFIG.matrix.columns = 0]

\* ErrorHandler.handleContextLoss
handleContextLoss(w, t) ==
    setTimeout([w EXCEPT !.gate.lost = TRUE, !.gate.recovered = FALSE,
                         !.gate.atLoss = Counts(w.CONFIG)],
               "contextLost", t, ContextLossDelay)

\* ErrorHandler.handleContextRestore
handleContextRestore(w, t) ==
    setTimeout([w EXCEPT !.gate.lost = FALSE, !.gate.recovered = w.gate.lost],
               "contextRestored", t, ContextRestoreDelay)

\* the timer callback of ErrorHandler.handleContextRestore: setupCanvas() and
\* initParticles() or initColumns() of the scenes that are active
restoreCallback_SurfacesOnly(w) ==
    IF w.isActive.hero /\ w.CONFIG.performance.spatialOptimization /\ ~DEVICE_CONFIG.mobile
    THEN [w EXCEPT !.spatialGrid = SetupGrid(DEVICE_CONFIG, w.CONFIG)]
    ELSE w

restoreCallback(w) ==
    LET w1 == IF w.isActive.intro
              THEN [w EXCEPT !.particles3D =
                        [i \in Fill(w.CONFIG.intro.particleCount) |->
                             Particle3DReset(DEVICE_CONFIG, IntroDraw)]]
              ELSE w
        w2 == IF w1.isActive.hero
              THEN [w1 EXCEPT !.spatialGrid =
                                  IF w1.CONFIG.performance.spatialOptimization
                                     /\ ~DEVICE_CONFIG.mobile
                                  THEN SetupGrid(DEVICE_CONFIG, w1.CONFIG)
                                  ELSE @,
                              !.heroParticles =
                                  [i \in Fill(w1.CONFIG.hero.particleCount) |->
                                       HeroParticleReset(HeroDrawAt(i))]]
              ELSE w1
    IN IF w2.isActive.matrix
       THEN [w2 EXCEPT !.columns = [i \in Fill(w2.CONFIG.matrix.columns) |->
                                        MatrixColumnReset(w2.CONFIG, ColumnDraw)]]
       ELSE w2

\* MemoryManager.destroy: the frame requests are cancelled, the handles and
\* the isActive flags are left as they are
memoryDestroy(w) ==
    LET w1 == IF w.animationFrame # 0
              THEN cancelAnimationFrame(w, w.animationFrame) ELSE w
        w2 == IF w1.heroAnimationFrame # 0
              THEN cancelAnimationFrame(w1, w1.heroAnimationFrame) ELSE w1
        w3 == IF w2.matrixAnimationFrame # 0
              THEN cancelAnimationFrame(w2, w2.matrixAnimationFrame) ELSE w2
    IN [w3 EXCEPT !.particles3D = <<>>, !.heroParticles = <<>>]

\* the page after a handler of the surface signals; obs keeps the entity
\* collections the handler found
Handled(op, w) ==
    /\ Becomes(Noted(op, w))
    /\ obs' = [op |-> op, prevOp |-> obs.op, pre |-> LifePart(World), polls |-> w.polls,
               id |-> 0, before |-> [s \in Scenes |-> Entities(World, s)]]

\* the webglcontextlost signal of a canvas
ContextLost ==
    /\ batch = <<>>
    /\ gate.events < MaxSurfaceEvents
    /\ ~gate.lost
    /\ Handled("contextLost", handleContextLoss(UserEvent(World), now))
    /\ UNCHANGED <<DEVICE_CONFIG, now, fpsHistory, lastCleanup, mouse, hidden>>

\* the webglcontextrestored signal of a canvas
ContextRestored ==
    /\ batch = <<>>
    /\ gate.events < MaxSurfaceEvents
    /\ Handled("contextRestored", handleContextRestore(UserEvent(World), now))
    /\ UNCHANGED <<DEVICE_CONFIG, now, fpsHistory, lastCleanup, mouse, hidden>>

\* the timer of handleContextLoss: handleCanvasError
FireContextLost ==
    /\ TimerDue("contextLost")
    /\ now' = FireTime
    /\ Handled("canvasError",
               handleCanvasError([World EXCEPT !.timers = RemoveAt(@, NextTimer)], FireTime))
    /\ UNCHANGED <<DEVICE_CONFIG, fpsHistory, lastCleanup, mouse, hidden>>

\* the timer of handleCanvasError
FireStaticMode ==
    /\ TimerDue("staticMode")
    /\ now' = FireTime
    /\ Handled("staticMode", staticMode([World EXCEPT !.timers = RemoveAt(@, NextTimer)]))
    /\ UNCHANGED <<DEVICE_CONFIG, fpsHistory, lastCleanup, mouse, hidden>>

\* the timer of handleContextRestore
FireContextRestored ==
    /\ TimerDue("contextRestored")
    /\ now' = FireTime
    /\ Handled("restore", restoreCallback([World EXCEPT !.timers = RemoveAt(@, NextTimer)]))
    /\ UNCHANGED <<DEVICE_CONFIG, fpsHistory, lastCleanup, mouse, hidden>>

\* beforeunload or pagehide: MemoryManager.destroy
Unload ==
    /\ batch = <<>>
    /\ gate.events < MaxSurfaceEvents
    /\ Handled("unload", memoryDestroy(UserEvent(World)))
    /\ UNCHANGED <<DEVICE_CONFIG, now, fpsHistory, lastCleanup, mouse, hidden>>

NextSurface ==
    \/ \E dt \in FrameDts : FrameStart(dt, MaxSurfaceFrames)
    \/ RunIntro
    \/ RunHero
    \/ RunMatrix
    \/ FireAutoComplete
    \/ FireInitScenes
    \/ Skip
    \/ Replay
    \/ ContextLost
    \/ ContextRestored
    \/ FireContextLost
    \/ FireStaticMode
    \/ FireContextRestored
    \/ Unload

SpecSurface == Init /\ [][NextSurface]_vars

\* C22: from a surface-lost signal to the matching surface-restored signal no
\* scene runs an update and draw pass.
C22_NoDrawWhileSurfaceLost ==
    (obs.op = "animate" /\ gate.lost) => ~DidWork

\* the collection initParticles() or initColumns() of scene s builds from the
\* current configuration
FreshEntities(s) ==
    CASE s = "intro" -> [i \in 1 .. CONFIG.intro.particleCount |->
                             Particle3DReset(DEVICE_CONFIG, IntroDraw)]
      [] s = "hero" -> [i \in 1 .. CONFIG.hero.particleCount |->
                            HeroParticleReset(HeroDrawAt(i))]
      [] s = "matrix" -> [i \in 1 .. CONFIG.matrix.columns |->
                              MatrixColumnReset(CONFIG, ColumnDraw)]

\* the surface of scene s exists
HasSurface(s) == s = "intro" \/ canvas[s]

\* C23 as stated: when the settle delay after the surface-restored signal has
\* elapsed, each of the three scenes has its surface set up and its
\* collection recreated with the configured count.
C23_EverySceneReset ==
    obs.op = "restore"
    => \A s \in Scenes : HasSurface(s) /\ Entities(World, s) = FreshEntities(s)

\* C23: when the settle delay after the surface-restored signal has elapsed,
\* every scene that is active has its surface set up and its collection
\* recreated with the configured count, and every inactive scene keeps the
\* collection it had.
C23_ActiveScenesReset ==
    obs.op = "restore"
    => \A s \in Scenes :
          /\ obs.pre.isActive[s]
             => /\ HasSurface(s)
                /\ Entities(World, s) = FreshEntities(s)
                /\ Len(Entities(World, s)) =
                       (CASE s = "intro" -> CONFIG.intro.particleCount
                          [] s = "hero" -> CONFIG.hero.particleCount
                          [] s = "matrix" -> CONFIG.matrix.columns)
          /\ ~obs.pre.isActive[s] => Entities(World, s) = obs.before[s]
          /\ isActive[s] = obs.pre.isActive[s]

\* a restoration that found an active scene whose entities had moved on from
\* their reset state, and an inactive one
C23_Witness ==
    /\ obs.op = "restore"
    /\ \E s \in Scenes :
          /\ obs.pre.isActive[s]
          /\ obs.before[s] # <<>>
          /\ obs.before[s] # Entities(World, s)
    /\ \E s \in Scenes : ~obs.pre.isActive[s] /\ obs.before[s] # <<>>

\* C38: when a restored signal has followed a lost signal and every timer has
\* fired, the configured counts are those the lost signal found and every
\* active scene holds that many entities.
C38_LossRecoverable ==
    (gate.recovered /\ timers = <<>> /\ batch = <<>>)
    => /\ Counts(CONFIG) = gate.atLoss
       /\ isActive.intro => Len(particles3D) = gate.atLoss[1]
       /\ isActive.hero => Len(heroParticles) = gate.atLoss[2]
       /\ isActive.matrix => Len(columns) = gate.atLoss[3]

\* scene s is destroyed: inactive, no frame handle, no entities and, for the
\* hero scene, no spatial grid
Destroyed(s) ==
    /\ ~isActive[s]
    /\ HandleOf(LifePart(World), s) = 0
    /\ Entities(World, s) = <<>>
    /\ s = "hero" => spatialGrid = NoGrid

\* C30: the intro after complete(), the hero and the matrix scene after their
\* destroy(), and all three after MemoryManager.destroy(), are inactive with
\* a null frame handle and an empty entity collection, the hero scene without
\* its spatial grid.
C30_LeftSceneIsDestroyed ==
    /\ obs.op \in {"skip", "complete"} => Destroyed("intro")
    /\ obs.op = "replay" => Destroyed("hero") /\ Destroyed("matrix")
    /\ obs.op = "unload" => \A s \in Scenes : Destroyed(s)

----------------------------------------------------------------------------
(* The static fallback and the quality controller: the timer callback of   *)
(* handleCanvasError at any moment between the quality checks and the fps  *)
(* samples of a mobile device.  gate.fallback is true once it has run.     *)

StaticDevices == {Mobile}

InitStatic ==
    /\ DEVICE_CONFIG \in StaticDevices
    /\ now = 0
    /\ lastFrameTime = 0
    /\ frameCount = 0
    /\ qualityLevel = QScale
    /\ fpsHistory = <<>>
    /\ CONFIG = ConfigFor(DEVICE_CONFIG)
    /\ particles3D = <<>>
    /\ columns = <<>>
    /\ lastCleanup = 0
    /\ heroParticles = <<>>
    /\ spatialGrid = NoGrid
    /\ mouse = [x |-> 0, y |-> 0]
    /\ lines = <<>>
    /\ LifecycleAtLoad
    /\ obs = [op |-> "init"]
    /\ gate = [fallback |-> FALSE]

\* the timer callback of ErrorHandler.handleCanvasError
StaticFallback ==
    /\ ~gate.fallback
    /\ CONFIG' = staticMode([CONFIG |-> CONFIG]).CONFIG
    /\ gate' = [fallback |-> TRUE]
    /\ obs' = [op |-> "staticMode"]
    /\ UNCHANGED <<DEVICE_CONFIG, now, gateVars, qualityLevel, fpsHistory, bufVars,
                   heroVars, lifeVars>>

NextStatic ==
    \/ CallUpdateQuality
    \/ \E fps \in FpsSamples, memoryHigh \in BOOLEAN : MonitorSample(fps, memoryHigh)
    \/ StaticFallback

SpecStatic == InitStatic /\ [][NextStatic]_vars

\* C21: once handleCanvasError has set the three configured counts to 0 they
\* stay 0 under every later quality check and fps sample.
C21_StaticFallbackAbsorbing ==
    gate.fallback
    => /\ CONFIG.intro.particleCount = 0
       /\ CONFIG.hero.particleCount = 0
       /\ CONFIG.matrix.columns = 0

----------------------------------------------------------------------------
(* The whole page again: polls, loops and phases under skip, replay and    *)
(* visibility changes.  gate.startedAt is the time of the last start().    *)

\* C32: a frame callback whose poll of the gate is rejected leaves
\* lastFrameTime, frameCount, the quality state and every entity as they
\* were, and issues exactly one frame request.
C32_RejectedPollDoesNothing ==
    [][(obs'.op = "animate" /\ Len(obs'.polls) = 1 /\ ~obs'.polls[1].result)
       => /\ lastFrameTime' = lastFrameTime
          /\ frameCount' = frameCount
          /\ qualityLevel' = qualityLevel
          /\ CONFIG' = CONFIG
          /\ gate'.checkedAt = gate.checkedAt
          /\ particles3D' = particles3D
          /\ heroParticles' = heroParticles
          /\ spatialGrid' = spatialGrid
          /\ columns' = columns
          /\ lines' = lines
          /\ nextHandle' = nextHandle + 1
          /\ Len(rafQueue') = Len(rafQueue) + 1
          /\ rafQueue'[Len(rafQueue')].scene = obs'.polls[1].scene]_vars

\* a frame callback of a scene with entities was rejected by the gate some
\* time after the last accepted frame
C32_Witness ==
    /\ obs.op = "animate"
    /\ Len(obs.polls) = 1
    /\ ~obs.polls[1].result
    /\ obs.polls[1].time > lastFrameTime
    /\ Entities(World, obs.polls[1].scene) # <<>>

\* the ids of the frame requests of scene s that are outstanding
Outstanding(s) ==
    {rafQueue[i].id : i \in {k \in DOMAIN rafQueue : rafQueue[k].scene = s}}
    \cup {batch[i].id : i \in {k \in DOMAIN batch : batch[k].scene = s}}

\* C34: each scene has at most one outstanding frame request, and it is the
\* one its handle records.
C34_OneLoopPerScene ==
    \A s \in Scenes :
        /\ Cardinality(Outstanding(s)) <= 1
        /\ Outstanding(s) \subseteq {HandleOf(LifePart(World), s)}

\* C35: while the page is hidden no scene is active and no handler performs
\* an update and draw pass.
C35_HaltedWhileHidden ==
    hidden => /\ \A s \in Scenes : ~isActive[s]
              /\ ~DidWork

\* C36: the intro is never active together with the hero or the matrix scene.
C36_PhasesExclusive ==
    ~(isActive.intro /\ (isActive.hero \/ isActive.matrix))

\* C37: the auto-complete timer completes a running intro only when
\* CONFIG.intro.duration has passed since the start() of that run.
C37_IntroRunsFullCourse ==
    (obs.op = "complete" /\ obs.pre.isActive.intro /\ ~obs.pre.introCompleted)
    => now >= gate.startedAt + IntroDuration

----------------------------------------------------------------------------
(* The handoff from the intro to the main site: the page on a mobile       *)
(* device with frames at the display rate or at half of it, the intro      *)
(* skipped or completed by its timer, and no replay or visibility change.  *)
(* The platform runs every callback it has accepted and fires every timer. *)

HandoffDts == {17, 34}

NextHandoff ==
    \/ \E dt \in HandoffDts : FrameStart(dt, MaxFrames)
    \/ RunIntro
    \/ RunHero
    \/ RunMatrix
    \/ FireAutoComplete
    \/ FireInitScenes
    \/ Skip

\* the platform fires the timer that is due next; its callback may set the
\* timer of complete()
TimerFires ==
    /\ batch = <<>>
    /\ timers # <<>>
    /\ timers' \in {RemoveAt(timers, NextTimer),
                    Append(RemoveAt(timers, NextTimer),
                           [kind |-> "initScenes", due |-> FireTime + MainSiteDelay])}

\* the platform runs the next callback of the frame it has started
CallbackRuns ==
    /\ batch # <<>>
    /\ batch' = Tail(batch)

SpecHandoff ==
    Init /\ [][NextHandoff]_vars /\ WF_timers(TimerFires) /\ WF_batch(CallbackRuns)

\* the hero and the matrix scene are initialised and running
HandedOff ==
    /\ canvas.hero /\ canvas.matrix
    /\ isActive.hero /\ isActive.matrix
    /\ Pending(LifePart(World), "hero") >= 1
    /\ Pending(LifePart(World), "matrix") >= 1
    /\ Len(heroParticles) = CONFIG.hero.particleCount
    /\ Len(columns) = CONFIG.matrix.columns

\* C39: once the intro has completed, by a skip or by its timer, the hero and
\* the matrix scene are eventually initialised and active, each with a frame
\* request pending and with entity collections of the configured sizes.
C39_HandoffHappens == introCompleted ~> HandedOff

\* the main site runs after an intro that its timer completed
C39_Witness ==
    /\ HandedOff
    /\ now >= IntroDuration
    /\ heroParticles # <<>> /\ columns # <<>>

----------------------------------------------------------------------------
(* Configured counts of any sign: the page of a mobile device loaded with  *)
(* each of the three counts zero, negative or positive, then run through   *)
(* the handoff.                                                            *)

CountInputs == {-2, -1, 0, 2}

\* the page at load when CONFIG holds the counts c: IntroController.init
\* builds particles3D from CONFIG.intro.particleCount
WithCounts(w, c) ==
    [w EXCEPT !.CONFIG.intro.particleCount = c[1],
              !.CONFIG.hero.particleCount = c[2],
              !.CONFIG.matrix.columns = c[3],
              !.particles3D = [i \in Fill(c[1]) |-> Particle3DReset(DEVICE_CONFIG, IntroDraw)]]

InitCounts ==
    \E c \in CountInputs \X CountInputs \X CountInputs : \E t0 \in LoadTimes :
        /\ DEVICE_CONFIG = Mobile
        /\ now = t0
        /\ fpsHistory = <<>>
        /\ lastCleanup = 0
        /\ mouse = [x |-> 0, y |-> 0]
        /\ hidden = FALSE
        /\ Loaded(start(WithCounts(AtLoad(Mobile), c), t0))
        /\ obs = [op |-> "start", prevOp |-> "load", pre |-> LifePart(AtLoad(Mobile)),
                  polls |-> start(WithCounts(AtLoad(Mobile), c), t0).polls, id |-> 0]

SpecCounts == InitCounts /\ [][NextHandoff]_vars

\* C33: a scene whose configured count is zero or negative has an empty
\* entity collection once initParticles() or initColumns() has run, and its
\* accepted frames leave it active with a frame requested.
C33_NonPositiveCountIsEmpty ==
    \A s \in Scenes :
        (HasSurface(s) /\ Counts(CONFIG)[SceneIndex(s)] <= 0)
        => /\ Entities(World, s) = <<>>
           /\ (obs.op = "animate" /\ obs.polls[1].scene = s /\ obs.polls[1].result)
              => /\ isActive[s]
                 /\ Pending(LifePart(World), s) >= 1

\* an accepted frame of the hero scene under a negative count, beside a
\* matrix scene with columns
C33_Witness ==
    /\ obs.op = "animate"
    /\ obs.polls[1].scene = "hero" /\ obs.polls[1].result
    /\ CONFIG.hero.particleCount < 0
    /\ CONFIG.matrix.columns > 0 /\ columns # <<>>

----------------------------------------------------------------------------
(* Adaptive counts and live collections: the page of a mobile device at    *)
(* the start of a replayed intro in a slow session (the gate has accepted  *)
(* frames up to two short of a quality check, the monitor has measured     *)
(* 20 fps), run through the handoff with low fps samples, surface signals, *)
(* replay and unload.  The replay click is the first event of the run.     *)

AdaptFps == 20

InitAdapt ==
    \E t0 \in LoadTimes :
        /\ DEVICE_CONFIG = Mobile
        /\ now = t0
        /\ fpsHistory = <<AdaptFps>>
        /\ lastCleanup = 0
        /\ mouse = [x |-> 0, y |-> 0]
        /\ hidden = FALSE
        /\ Loaded(start([AtLoad(Mobile) EXCEPT !.frameCount = QualityCheckPeriod - 2,
                                               !.canvas = [hero |-> TRUE, matrix |-> TRUE],
                                               !.gate.events = 1],
                        t0))
        /\ obs = [op |-> "start", prevOp |-> "replay", pre |-> LifePart(AtLoad(Mobile)),
                  polls |-> <<>>, id |-> 0]

\* PerformanceMonitor.monitor stores a low fps sample between two frames
LowFpsSample ==
    /\ batch = <<>>
    /\ MonitorSample(AdaptFps, FALSE)

NextAdapt ==
    \/ \E dt \in FrameDts : FrameStart(dt, MaxSurfaceFrames)
    \/ RunIntro
    \/ RunHero
    \/ RunMatrix
    \/ FireAutoComplete
    \/ FireInitScenes
    \/ Skip
    \/ Replay
    \/ ContextLost
    \/ ContextRestored
    \/ FireContextLost
    \/ FireStaticMode
    \/ FireContextRestored
    \/ Unload
    \/ LowFpsSample

SpecAdapt == InitAdapt /\ [][NextAdapt]_vars

\* the length of each scene's entity collection
Sizes == [s \in Scenes |-> Len(Entities(World, s))]

\* C31: the length of a scene's collection changes only in an
\* initialisation, a restoration or a destroy; an initialisation leaves it at
\* the configured count it read; and a change of the configured counts by the
\* quality check, the low-fps handler or the static fallback leaves every
\* collection as it was.
C31_CountChangesOnlyByReset ==
    [][/\ \A s \in Scenes :
             Sizes'[s] # Sizes[s] => obs'.op \in {"initScenes", "restore", "replay", "unload"}
       /\ obs'.op = "initScenes"
          => /\ Sizes'["hero"] = Max(0, CONFIG.hero.particleCount)
             /\ Sizes'["matrix"] = Max(0, CONFIG'.matrix.columns)
       /\ obs'.op = "restore"
          => \A s \in Scenes :
                isActive[s] => Sizes'[s] = Max(0, Counts(CONFIG)[SceneIndex(s)])
       /\ obs'.op \in {"staticMode", "monitor"}
          => /\ particles3D' = particles3D
             /\ heroParticles' = heroParticles
             /\ columns' = columns]_vars

\* a quality check has changed the configured count of the running hero
\* scene, which keeps the particles it was initialised with
C31_Witness ==
    /\ gate.checkedAt # {}
    /\ isActive.hero
    /\ heroParticles # <<>>
    /\ Len(heroParticles) # CONFIG.hero.particleCount
    /\ obs.op = "animate"

====
